---- MODULE Spec2Model ----
(***************************************************************************)
(* A model of the Idaho PUC research crawler: the Listing Scanner          *)
(* (crawler.js Crawler.crawlCases and searchCasesByDescription), the       *)
(* Extraction Worker Pool (processDocumentsInParallel and                  *)
(* processDocumentChunk), the crawl run around it (ProvenWorkingCrawler    *)
(* .crawlCases, conductResearch) and the Chunk Indexer                     *)
(* (DocumentProcessor.createChunksFromText).                               *)
(***************************************************************************)
EXTENDS Integers, Sequences, FiniteSets, TLC

(***************************************************************************)
(* Bounds of the model.                                                    *)
(***************************************************************************)
\* longest listing of matched cases scanned in one view
MaxListing == 6

\* most valid cases case discovery returns
MaxCases == 2

\* most document links one case has
MaxDocs == 3

\* largest worker bound maxParallel tried
MaxWorkers == 3

\* page texts are LenStep, 2 * LenStep, ... MaxLenSteps * LenStep characters long
LenStep == 50

MaxLenSteps == 64

\* sentence ends may lie at the multiples of BreakStep, paragraph breaks half
\* a step after them
BreakStep == 350

\* most page markers in one document text
MaxPages == 2

\* most pages of a document the viewer shows in its small-document mode
MaxViewerPages == 6

\* most pages without text in a document of more than SmallDocLimit pages
MaxBlankPages == 1

\* most words in the content of a chunk of the index, and in a query
MaxWords == 2

\* most chat requests on one index
MaxChats == 2

\* most research runs on one service
MaxRuns == 3

\* the months of FirstYear the dates are drawn from
MaxMonths == 2

\* most sentence ends, and most paragraph breaks, in one page text
MaxSentenceEnds == 2

MaxParagraphBreaks == 1

(***************************************************************************)
(* Small helpers.                                                          *)
(***************************************************************************)
Min(a, b) == IF a < b THEN a ELSE b

Max(a, b) == IF a > b THEN a ELSE b

\* Math.ceil(a / b) for a >= 0, b > 0
Ceil(a, b) == (a + b - 1) \div b

VARIABLES
  \* ---- Listing Scanner ----
  impl,         \* which scanner runs: "crawler_js" or "part_003"
  caseStatus,   \* status of the listing view being scanned: "open" / "closed"
  seen,         \* what the detail page of each case visited so far showed
  consecutive,  \* consecutiveInvalidDates / consecutiveTooNew
  validCases,   \* positions (in seen) of the cases put in the output
  scanPc        \* "scanning", "stopped" (break) or "exhausted" (loop ended)

scanVars == <<impl, caseStatus, seen, consecutive, validCases, scanPc>>

VARIABLES
  \* ---- ProvenWorkingCrawler.crawlCases ----
  crawlPc,        \* "idle", "discover", "count", "links", "pool", "returned", "ready"
  maxParallel,    \* the worker bound W
  nCases,         \* allValidCases.length
  caseIdx,        \* the case the counting or the extraction pass is at
  totalExtracted, \* let totalExtracted
  casesFound,     \* result.casesFound (case numbers)
  allExtractedDocuments, \* result.allExtractedDocuments, as <<case, document>>
  summary,        \* result.summary.totalCases / totalDocuments
  fatal,          \* the catch of crawlCases ran
  trackerExtracted, \* progressTracker.extractedDocuments
  openSessions,   \* browsers launched by the two passes and not closed
  sessionDocuments, \* what conductResearch hands to the search
  \* ---- processDocumentsInParallel, for the case being extracted ----
  nDocs,          \* documentLinks.length
  poolPc,         \* "none", "running", "resolved", "rejected"
  extractedTexts, \* the pool's own extractedTexts array
  completedDocs,  \* let completedDocs
  wpc,            \* per worker: "waiting", "running", "closing", "resolved", "rejected"
  pos,            \* per worker: documents of its chunk it has been through
  wres,           \* per worker: the extractedTexts of processDocumentChunk
  outcome,        \* per document: "pending" or how extractDocumentText ended
  visits,         \* per document: calls of extractDocumentText
  \* ---- process-wide ----
  failed,         \* DEBUG_FAILURES.failed
  savedFiles      \* text files written by extractDocumentText, as <<case, document>>

crawlVars == <<crawlPc, maxParallel, nCases, caseIdx, totalExtracted, casesFound,
               allExtractedDocuments, summary, fatal, trackerExtracted,
               openSessions, sessionDocuments>>

poolVars == <<nDocs, poolPc, extractedTexts, completedDocs, wpc, pos, wres,
              outcome, visits>>

logVars == <<failed, savedFiles>>

VARIABLES
  \* ---- DocumentProcessor.createChunksFromText ----
  cfg,        \* chunkSize, chunkOverlap, minChunkSize of the processor
  text,       \* the page text: its length, where its ". " and "\n\n" lie
  start,      \* let start
  chunkIndex, \* let chunkIndex
  chunks,     \* the chunks pushed: the span of each content in the text
  chunkPc     \* "idle", "called", "loop", "done"

chunkVars == <<cfg, text, start, chunkIndex, chunks, chunkPc>>

VARIABLES
  \* ---- DocumentProcessor.createChunks ----
  procImpl,   \* which createChunks runs
  doc,        \* the cleaned document text: its page markers and their contents
  units,      \* the units handed to createChunksFromText, in order
  unitIdx,    \* the unit being chunked
  docChunks,  \* the chunks returned for the document
  docPc       \* "idle", "called", "units", "returned"

docVars == <<procImpl, doc, units, unitIdx, docChunks, docPc>>

VARIABLES
  \* ---- extractDocumentText: the pages of one document ----
  documentType,   \* the viewer type detected
  totalPageCount, \* the number of pages the viewer reports
  withText,       \* the pages that have more than 10 characters of text
  pageNum,        \* the page-by-page loops: let pageNum
  section,        \* the bulk scrolling loop: let section
  offset,         \* the bulk scrolling loop: let i
  allText,        \* the page numbers of the markers in allText, in order
  lazyPasses,     \* the lazy-load passes made, each followed by a re-extraction
  extractPc       \* "idle", "pages", "done"

extractVars ==
  <<documentType, totalPageCount, withText, pageNum, section, offset, allText,
    lazyPasses, extractPc>>

VARIABLES
  \* ---- DynamicPUCResearchService: search and chat ----
  indexedChunks,    \* the chunks of this.sessionDocuments
  searchPath,       \* which search ran last: "keyword" or "json"
  searchTerms,      \* const searchTerms of the last search
  scored,           \* the score of every chunk in the last search
  searchResults,    \* what the last search returned: chunks by their index
  topChunks,        \* generateChatResponse: const topChunks
  citations,        \* the citations of the last chat response, by case
  prevTopChunks,    \* topChunks of the chat before the last
  prevCitations,    \* the citations of the chat before the last
  chatCount         \* the chats answered

searchVars ==
  <<indexedChunks, searchPath, searchTerms, scored, searchResults,
    topChunks, citations, prevTopChunks, prevCitations, chatCount>>

VARIABLES
  \* ---- validateCaseDate ----
  timeZone,     \* the offset of the local time of the process from UTC, minutes
  dateRange,    \* dateRange.start and dateRange.end
  dateStr,      \* the Date Filed found on the case page, or NoDate
  isValid,      \* what validateCaseDate returned
  datePc        \* "idle", "ready" (range given), "checked"

dateVars == <<timeZone, dateRange, dateStr, isValid, datePc>>

VARIABLES
  \* ---- matchesQuery ----
  matchImpl,    \* which matchesQuery: "crawler_js" or "part_003"
  caseData,     \* caseData.company and caseData.description, as words
  userQuery,    \* the words of userQuery
  matched,      \* what matchesQuery returned
  matchPc       \* "idle", "ready", "done"

matchVars == <<matchImpl, caseData, userQuery, matched, matchPc>>

VARIABLES
  \* ---- DynamicPUCResearchService: research sessions ----
  currentSession,     \* this.currentSession.id, 0 for null
  serviceDocuments,   \* the run whose chunks this.sessionDocuments holds, 0 for null
  research,           \* per research run: "none", "crawling", "ready", "failed"
  chatSession,        \* the session id of the last chat request, 0 before any
  chatSearched,       \* the run whose chunks the last chat searched, 0 for none
  serviceChats        \* the chat requests answered

serviceVars ==
  <<currentSession, serviceDocuments, research, chatSession, chatSearched,
    serviceChats>>

VARIABLES
  \* ---- extractDocumentText: viewer type detection ----
  needsTextMode,    \* the page has the #TEXTMODE button
  textModeClicked,  \* page.click('#TEXTMODE') was done
  structure,        \* the five structural flags of the page as it is now
  detected,         \* const documentType, "none" before the detection
  detections,       \* how often the type of the document was detected
  detectPc          \* "idle", "loaded", "switched", "extracting", "returned"

detectVars ==
  <<needsTextMode, textModeClicked, structure, detected, detections, detectPc>>

VARIABLES
  \* ---- DocumentProcessor.processDocuments ----
  statsImpl,        \* which processDocuments: "processor_js" or "part_004"
  inputDocuments,   \* crawlerResults.allExtractedDocuments, by what reading gives
  docIndex,         \* the documents the for loop has gone through
  processingStats,  \* processedDocuments, totalChunks, skippedDocuments, processingErrors
  processedChunks,  \* the length of processedChunks
  statsPc           \* "idle", "loop", "returned"

statsVars ==
  <<statsImpl, inputDocuments, docIndex, processingStats, processedChunks, statsPc>>

vars ==
  <<scanVars, crawlVars, poolVars, logVars, chunkVars, docVars, extractVars,
    searchVars, dateVars, matchVars, serviceVars, detectVars, statsVars>>

(***************************************************************************)
(* Listing Scanner.                                                        *)
(*                                                                         *)
(* What visiting one matched case can show:                                *)
(*   "in"     validateCaseDate returns true;                               *)
(*   "old"    a Date Filed before the range start;                         *)
(*   "new"    a Date Filed after the range end;                            *)
(*   "nodate" validateCaseDate returns false and the lookup of             *)
(*            td[data-title="Date Filed"] finds no date;                   *)
(*   "err"    page.goto or the date lookup throws.                         *)
(***************************************************************************)
CaseOutcome == {"in", "old", "new", "nodate", "err"}

Impls == {"crawler_js", "part_003"}

MAX_CONSECUTIVE_INVALID == 5

MAX_CONSECUTIVE_TOO_NEW == 5

\* validateCaseDate: the filed date lies in [start, end]
isValidDate(c) == c = "in"

\* if (consecutiveInvalidDates >= MAX_CONSECUTIVE_INVALID) break
InvalidLimitReachedGt(n) == n > MAX_CONSECUTIVE_INVALID

InvalidLimitReached(n) == n >= MAX_CONSECUTIVE_INVALID

\* if (consecutiveTooNew >= MAX_CONSECUTIVE_TOO_NEW) break
TooNewLimitReached(n) == n >= MAX_CONSECUTIVE_TOO_NEW

\* the counter when an error counts as a failed date check
InvalidCounterErrorCounts(n, c) ==
  IF isValidDate(c) THEN 0 ELSE n + 1

\* the counter after one case in the loop that counts every failed date check
InvalidCounterAfter(n, c) ==
  IF c = "err" THEN n
  ELSE IF isValidDate(c) THEN 0
  ELSE n + 1

\* the counter after one case in the closed-view loop of searchCasesByDescription
TooNewCounterAfter(n, c) ==
  IF c = "err" THEN n
  ELSE IF isValidDate(c) THEN 0
  ELSE IF c = "nodate" THEN n          \* if (dateStr) fails: nothing changes
  ELSE IF c = "new" THEN n + 1         \* caseDate > endDate
  ELSE 0                               \* too old: consecutiveTooNew = 0

ScanInit ==
  /\ impl \in Impls
  /\ caseStatus \in {"open", "closed"}
  /\ seen = <<>>
  /\ consecutive = 0
  /\ validCases = <<>>
  /\ scanPc = "scanning"

ScanIdle ==
  /\ impl = "crawler_js"
  /\ caseStatus = "open"
  /\ seen = <<>>
  /\ consecutive = 0
  /\ validCases = <<>>
  /\ scanPc = "exhausted"

\* One iteration of `for (const c of matchingCases)` in Crawler.crawlCases.
\* downloadCaseDocuments catches its own errors, and the case is pushed to
\* casesFound whether or not documents were found.
CrawlCasesStep(c) ==
  /\ impl = "crawler_js"
  /\ scanPc = "scanning"
  /\ Len(seen) < MaxListing
  /\ seen' = Append(seen, c)
  /\ consecutive' = InvalidCounterAfter(consecutive, c)
  /\ validCases' = IF isValidDate(c) THEN Append(validCases, Len(seen) + 1)
                   ELSE validCases
  /\ scanPc' = IF c \notin {"in", "err"} /\ InvalidLimitReached(consecutive')
               THEN "stopped" ELSE "scanning"
  /\ UNCHANGED <<impl, caseStatus, crawlVars, poolVars, logVars, chunkVars, docVars, extractVars, searchVars, dateVars, matchVars, serviceVars, detectVars, statsVars>>

\* One iteration of the open-view loop of searchCasesByDescription.
SearchOpenStep(c) ==
  /\ impl = "part_003"
  /\ caseStatus # "closed"
  /\ scanPc = "scanning"
  /\ Len(seen) < MaxListing
  /\ seen' = Append(seen, c)
  /\ consecutive' = InvalidCounterAfter(consecutive, c)
  /\ validCases' = IF isValidDate(c) THEN Append(validCases, Len(seen) + 1)
                   ELSE validCases
  /\ scanPc' = IF c \notin {"in", "err"} /\ InvalidLimitReached(consecutive')
               THEN "stopped" ELSE "scanning"
  /\ UNCHANGED <<impl, caseStatus, crawlVars, poolVars, logVars, chunkVars, docVars, extractVars, searchVars, dateVars, matchVars, serviceVars, detectVars, statsVars>>

\* One iteration of the closed-view loop of searchCasesByDescription.
SearchClosedStep(c) ==
  /\ impl = "part_003"
  /\ caseStatus = "closed"
  /\ scanPc = "scanning"
  /\ Len(seen) < MaxListing
  /\ seen' = Append(seen, c)
  /\ consecutive' = TooNewCounterAfter(consecutive, c)
  /\ validCases' = IF isValidDate(c) THEN Append(validCases, Len(seen) + 1)
                   ELSE validCases
  /\ scanPc' = IF c = "new" /\ TooNewLimitReached(consecutive')
               THEN "stopped" ELSE "scanning"
  /\ UNCHANGED <<impl, caseStatus, crawlVars, poolVars, logVars, chunkVars, docVars, extractVars, searchVars, dateVars, matchVars, serviceVars, detectVars, statsVars>>

\* The for loop runs out of matched cases.
ListingExhausted ==
  /\ scanPc = "scanning"
  /\ scanPc' = "exhausted"
  /\ UNCHANGED <<impl, caseStatus, seen, consecutive, validCases>>
  /\ UNCHANGED <<crawlVars, poolVars, logVars, chunkVars, docVars, extractVars, searchVars, dateVars, matchVars, serviceVars, detectVars, statsVars>>

ScanNext ==
  \/ \E c \in CaseOutcome : CrawlCasesStep(c)
  \/ \E c \in CaseOutcome : SearchOpenStep(c)
  \/ \E c \in CaseOutcome : SearchClosedStep(c)
  \/ ListingExhausted

(***************************************************************************)
(* Extraction Worker Pool and the crawl run around it.                     *)
(*                                                                         *)
(* How extractDocumentText can end for one document:                       *)
(*   "ok"      text was recovered, the file is written, a result returned; *)
(*   "unknown" no viewer signature matched: return null;                   *)
(*   "notext"  the strategy recovered no text: return null;                *)
(*   "throws"  a navigation error, a timeout or an extractor exception,    *)
(*             caught by extractDocumentText: DEBUG_FAILURES.record, then  *)
(*             return null.                                                *)
(***************************************************************************)
DocOutcome == {"ok", "unknown", "notext", "throws"}

\* how launching a worker's session can end
StartOutcome == {"ok", "launch_fails", "newpage_throws"}

RECURSIVE Flatten(_)
Flatten(ss) == IF ss = <<>> THEN <<>> ELSE Head(ss) \o Flatten(Tail(ss))

RECURSIVE SumLen(_)
SumLen(ss) == IF ss = <<>> THEN 0 ELSE Len(Head(ss)) + SumLen(Tail(ss))

Range(s) == {s[i] : i \in DOMAIN s}

\* chunkArray: for (i = 0; i < array.length; i += chunkSize) push(slice(i, i + chunkSize))
chunkArrayOverlapping(array, chunkSize) ==
  [k \in 1..Ceil(Len(array), chunkSize) |->
     SubSeq(array, (k - 1) * chunkSize + 1, Min(k * chunkSize + 1, Len(array)))]

chunkArray(array, chunkSize) ==
  [k \in 1..Ceil(Len(array), chunkSize) |->
     SubSeq(array, (k - 1) * chunkSize + 1, Min(k * chunkSize, Len(array)))]

\* const effectiveWorkers = Math.min(maxWorkers, documentLinks.length)
effectiveWorkers(n, W) == Min(W, n)

\* const documentsPerWorker = Math.ceil(documentLinks.length / effectiveWorkers)
documentsPerWorkerFloor(n, W) == Max(1, n \div effectiveWorkers(n, W))

documentsPerWorker(n, W) == Ceil(n, effectiveWorkers(n, W))

\* const documentChunks = chunkArray(documentLinks, documentsPerWorker),
\* for n document links, named by their position, and worker bound W
ChunksOf(n, W) == chunkArray([i \in 1..n |-> i], documentsPerWorker(n, W))

\* the document links of the case being extracted, and their chunks
documentLinks == [i \in 1..nDocs |-> i]

documentChunks == ChunksOf(nDocs, maxParallel)

Workers == DOMAIN wpc

\* the completedDocs a worker's progress callback computes
\* (completedDocs = extractedTexts.length + extractedCount)
CompletedDocsReported(poolTexts, extractedCount) == Len(poolTexts) + extractedCount

\* whether the for loop of processDocumentChunk goes on after a document
LoopEndsAfterFailure(kind, done, size) == kind # "ok" \/ done = size

LoopEnds(kind, done, size) == done = size

\* whether extractDocumentText records the document in DEBUG_FAILURES
RecordsFailure(kind) == kind = "throws"

PoolIdle ==
  /\ nDocs = 0
  /\ poolPc = "none"
  /\ extractedTexts = <<>>
  /\ completedDocs = 0
  /\ wpc = <<>>
  /\ pos = <<>>
  /\ wres = <<>>
  /\ outcome = <<>>
  /\ visits = <<>>

LogIdle ==
  /\ failed = <<>>
  /\ savedFiles = {}

CrawlIdle ==
  /\ crawlPc = "idle"
  /\ maxParallel = 1
  /\ nCases = 0
  /\ caseIdx = 0
  /\ totalExtracted = 0
  /\ casesFound = <<>>
  /\ allExtractedDocuments = <<>>
  /\ summary = [totalCases |-> 0, totalDocuments |-> 0]
  /\ fatal = FALSE
  /\ trackerExtracted = 0
  /\ openSessions = 0
  /\ sessionDocuments = <<>>

CrawlInit ==
  /\ crawlPc = "discover"
  /\ maxParallel \in 1..MaxWorkers
  /\ nCases = 0
  /\ caseIdx = 0
  /\ totalExtracted = 0
  /\ casesFound = <<>>
  /\ allExtractedDocuments = <<>>
  /\ summary = [totalCases |-> 0, totalDocuments |-> 0]
  /\ fatal = FALSE
  /\ trackerExtracted = 0
  /\ openSessions = 0
  /\ sessionDocuments = <<>>
  /\ PoolIdle
  /\ LogIdle

\* catch (error) of crawlCases, then the code after it: the result is returned
\* as it stands
FatalReturn ==
  /\ crawlPc' = "returned"
  /\ fatal' = TRUE
  /\ UNCHANGED <<nCases, caseIdx, totalExtracted, casesFound,
                 allExtractedDocuments, summary>>

\* the end of one iteration of the extraction loop: the next case, or the
\* compilation of the final results (summary.totalCases, summary.totalDocuments)
AfterCase(found, docs) ==
  IF caseIdx < nCases
  THEN /\ crawlPc' = "links"
       /\ caseIdx' = caseIdx + 1
       /\ summary' = summary
  ELSE /\ crawlPc' = "returned"
       /\ caseIdx' = caseIdx
       /\ summary' = [totalCases |-> Len(found), totalDocuments |-> Len(docs)]

\* Step 1: const allValidCases = await this.discoverCases(...)
DiscoverCases(n, ok) ==
  /\ crawlPc = "discover"
  /\ IF ~ok
     THEN FatalReturn
     ELSE /\ nCases' = n
          /\ crawlPc' = IF n = 0 THEN "returned" ELSE "count"
          /\ caseIdx' = IF n = 0 THEN 0 ELSE 1
          /\ UNCHANGED <<totalExtracted, casesFound, allExtractedDocuments,
                         summary, fatal>>
  /\ UNCHANGED <<maxParallel, trackerExtracted, openSessions, sessionDocuments>>
  /\ UNCHANGED <<scanVars, poolVars, logVars, chunkVars, docVars, extractVars, searchVars, dateVars, matchVars, serviceVars, detectVars, statsVars>>

\* One iteration of the counting pass: launch, getDocumentLinksFromCase, close.
CountCase(ok) ==
  /\ crawlPc = "count"
  /\ IF ~ok
     THEN /\ openSessions' = openSessions + 1
          /\ FatalReturn
     ELSE /\ openSessions' = openSessions
          /\ crawlPc' = IF caseIdx < nCases THEN "count" ELSE "links"
          /\ caseIdx' = IF caseIdx < nCases THEN caseIdx + 1 ELSE 1
          /\ UNCHANGED <<nCases, totalExtracted, casesFound,
                         allExtractedDocuments, summary, fatal>>
  /\ UNCHANGED <<maxParallel, trackerExtracted, sessionDocuments>>
  /\ UNCHANGED <<scanVars, poolVars, logVars, chunkVars, docVars, extractVars, searchVars, dateVars, matchVars, serviceVars, detectVars, statsVars>>

\* The head of one iteration of the extraction pass: launch,
\* getDocumentLinksFromCase, close, then either `continue` (no documents) or
\* progressTracker.updateProgress and the start of processDocumentsInParallel,
\* which sets one timer per chunk.
EnumerateLinks(n, ok) ==
  /\ crawlPc = "links"
  /\ IF ~ok
     THEN /\ openSessions' = openSessions + 1
          /\ FatalReturn
          /\ UNCHANGED <<trackerExtracted, poolVars>>
     ELSE IF n = 0
     THEN /\ AfterCase(casesFound, allExtractedDocuments)
          /\ UNCHANGED <<nCases, totalExtracted, casesFound,
                         allExtractedDocuments, fatal, openSessions,
                         trackerExtracted, poolVars>>
     ELSE /\ crawlPc' = "pool"
          /\ trackerExtracted' = totalExtracted
          /\ nDocs' = n
          /\ poolPc' = "running"
          /\ extractedTexts' = <<>>
          /\ completedDocs' = 0
          /\ wpc' = [w \in DOMAIN ChunksOf(n, maxParallel) |-> "waiting"]
          /\ pos' = [w \in DOMAIN ChunksOf(n, maxParallel) |-> 0]
          /\ wres' = [w \in DOMAIN ChunksOf(n, maxParallel) |-> <<>>]
          /\ outcome' = [d \in 1..n |-> "pending"]
          /\ visits' = [d \in 1..n |-> 0]
          /\ UNCHANGED <<nCases, caseIdx, totalExtracted, casesFound,
                         allExtractedDocuments, summary, fatal, openSessions>>
  /\ UNCHANGED <<maxParallel, sessionDocuments>>
  /\ UNCHANGED <<scanVars, logVars, chunkVars, docVars, extractVars, searchVars, dateVars, matchVars, serviceVars, detectVars, statsVars>>

\* A worker's promise rejects: Promise.all rejects at once, and if crawlCases
\* is still awaiting this pool its catch runs.
PoolRejects ==
  IF poolPc = "running"
  THEN /\ poolPc' = "rejected"
       /\ FatalReturn
       /\ UNCHANGED <<extractedTexts, trackerExtracted>>
  ELSE UNCHANGED <<poolPc, extractedTexts, trackerExtracted, crawlPc, fatal,
                   nCases, caseIdx, totalExtracted, casesFound,
                   allExtractedDocuments, summary>>

\* The timer of chunk w fires: processDocumentChunk launches the browser
\* (outside its try) and opens a page (inside it).
WorkerStart(w, oc) ==
  /\ w \in Workers
  /\ wpc[w] = "waiting"
  /\ IF w = 1 THEN TRUE ELSE wpc[w - 1] # "waiting"   \* timers fire in order
  /\ IF oc = "launch_fails"
     THEN /\ wpc' = [wpc EXCEPT ![w] = "rejected"]
          /\ PoolRejects
     ELSE /\ wpc' = [wpc EXCEPT ![w] = IF oc = "ok" THEN "running" ELSE "closing"]
          /\ UNCHANGED <<poolPc, extractedTexts, trackerExtracted, crawlPc,
                         fatal, nCases, caseIdx, totalExtracted, casesFound,
                         allExtractedDocuments, summary>>
  /\ UNCHANGED <<maxParallel, openSessions, sessionDocuments>>
  /\ UNCHANGED <<nDocs, completedDocs, pos, wres, outcome, visits>>
  /\ UNCHANGED <<scanVars, logVars, chunkVars, docVars, extractVars, searchVars, dateVars, matchVars, serviceVars, detectVars, statsVars>>

\* One iteration of `for (const docLink of documentChunk)`: extractDocumentText,
\* the push of a result, and the progress callbacks of the pool and of crawlCases.
ExtractDoc(w, kind) ==
  /\ w \in Workers
  /\ wpc[w] = "running"
  /\ LET d == documentChunks[w][pos[w] + 1]
         texts == IF kind = "ok" THEN Append(wres[w], d) ELSE wres[w]
         reported == CompletedDocsReported(extractedTexts, Len(texts))
     IN /\ outcome' = [outcome EXCEPT ![d] = kind]
        /\ visits' = [visits EXCEPT ![d] = @ + 1]
        /\ wres' = [wres EXCEPT ![w] = texts]
        /\ savedFiles' = IF kind = "ok" THEN savedFiles \cup {<<caseIdx, d>>}
                         ELSE savedFiles
        /\ failed' = IF RecordsFailure(kind)
                     THEN Append(failed, [caseNumber |-> caseIdx,
                                          document |-> d, workerId |-> w])
                     ELSE failed
        /\ completedDocs' = reported
        /\ trackerExtracted' = totalExtracted + reported
        /\ pos' = [pos EXCEPT ![w] = @ + 1]
        /\ wpc' = [wpc EXCEPT ![w] =
                     IF LoopEnds(kind, pos[w] + 1, Len(documentChunks[w]))
                     THEN "closing" ELSE "running"]
  /\ UNCHANGED <<crawlPc, maxParallel, nCases, caseIdx, totalExtracted,
                 casesFound, allExtractedDocuments, summary, fatal,
                 openSessions, sessionDocuments>>
  /\ UNCHANGED <<nDocs, poolPc, extractedTexts>>
  /\ UNCHANGED <<scanVars, chunkVars, docVars, extractVars, searchVars, dateVars, matchVars, serviceVars, detectVars, statsVars>>

\* finally { await browser.close() } of processDocumentChunk, and what follows
\* when this settles the pool: Promise.all resolves once every worker has,
\* crawlCases collects the case, and either goes to the next case or compiles
\* the final results.
WorkerClose(w, ok) ==
  /\ w \in Workers
  /\ wpc[w] = "closing"
  /\ IF ~ok
     THEN /\ wpc' = [wpc EXCEPT ![w] = "rejected"]
          /\ PoolRejects
     ELSE /\ wpc' = [wpc EXCEPT ![w] = "resolved"]
          /\ IF poolPc = "running" /\ \A v \in Workers \ {w} : wpc[v] = "resolved"
             THEN LET texts == Flatten(wres)
                      docs == allExtractedDocuments \o
                                [i \in 1..Len(texts) |-> <<caseIdx, texts[i]>>]
                      found == Append(casesFound, caseIdx)
                  IN /\ poolPc' = "resolved"
                     /\ extractedTexts' = texts
                     /\ totalExtracted' = totalExtracted + Len(texts)
                     /\ casesFound' = found
                     /\ allExtractedDocuments' = docs
                     /\ trackerExtracted' = totalExtracted + Len(texts)
                     /\ AfterCase(found, docs)
                     /\ UNCHANGED <<nCases, fatal>>
             ELSE UNCHANGED <<poolPc, extractedTexts, trackerExtracted, crawlPc,
                              fatal, nCases, caseIdx, totalExtracted, casesFound,
                              allExtractedDocuments, summary>>
  /\ UNCHANGED <<maxParallel, openSessions, sessionDocuments>>
  /\ UNCHANGED <<nDocs, completedDocs, pos, wres, outcome, visits>>
  /\ UNCHANGED <<scanVars, logVars, chunkVars, docVars, extractVars, searchVars, dateVars, matchVars, serviceVars, detectVars, statsVars>>

\* conductResearch after crawlCases returned: processExtractedDocuments over
\* crawlerResults.allExtractedDocuments, then prepareDocumentsForSearch.
ConductResearch ==
  /\ crawlPc = "returned"
  /\ crawlPc' = "ready"
  /\ sessionDocuments' = allExtractedDocuments
  /\ UNCHANGED <<maxParallel, nCases, caseIdx, totalExtracted, casesFound,
                 allExtractedDocuments, summary, fatal, trackerExtracted,
                 openSessions>>
  /\ UNCHANGED <<scanVars, poolVars, logVars, chunkVars, docVars, extractVars, searchVars, dateVars, matchVars, serviceVars, detectVars, statsVars>>

CrawlNext ==
  \/ \E n \in 0..MaxCases, ok \in BOOLEAN : DiscoverCases(n, ok)
  \/ \E ok \in BOOLEAN : CountCase(ok)
  \/ \E n \in 0..MaxDocs, ok \in BOOLEAN : EnumerateLinks(n, ok)
  \/ \E w \in Workers, oc \in StartOutcome : WorkerStart(w, oc)
  \/ \E w \in Workers, kind \in DocOutcome : ExtractDoc(w, kind)
  \/ \E w \in Workers, ok \in BOOLEAN : WorkerClose(w, ok)
  \/ ConductResearch

(***************************************************************************)
(* Chunk Indexer: DocumentProcessor.createChunksFromText.                  *)
(*                                                                         *)
(* A page text is a run of letters in which ". " (a sentence end) and      *)
(* "\n\n" (a paragraph break) occur at the places text.sentenceEnds and    *)
(* text.paragraphBreaks give: the index of the "." and of the first "\n",  *)
(* counted from 0 as in JavaScript.  A span <<from, to>> is                *)
(* text.substring(from, to).                                               *)
(***************************************************************************)
\* constructor: this.chunkSize = 1500; this.chunkOverlap = 200; this.minChunkSize = 300
DefaultConfig == [chunkSize |-> 1500, chunkOverlap |-> 200, minChunkSize |-> 300]

\* this.maxChunksPerDoc = 1000
maxChunksPerDoc == 1000

\* const advancement = Math.max(chunkText.length - this.chunkOverlap, 100)
MinAdvancement == 100

TextLengths == {k * LenStep : k \in 1..MaxLenSteps}

SentenceEndsIn(len) == {k * BreakStep : k \in 1..(len \div BreakStep)} \cap 1..(len - 3)

ParagraphBreaksIn(len) ==
  {k * BreakStep + BreakStep \div 2 : k \in 0..(len \div BreakStep)} \cap 1..(len - 3)

SmallSubsets(S, n) == {T \in SUBSET S : Cardinality(T) <= n}

\* the texts of length l tried: trimmed (no white space at either end), as extractPages
\* and cleanText leave them
Texts(l) ==
  {[len |-> l, sentenceEnds |-> se, paragraphBreaks |-> pb] :
     se \in SmallSubsets(SentenceEndsIn(l), MaxSentenceEnds),
     pb \in SmallSubsets(ParagraphBreaksIn(l), MaxParagraphBreaks)}

WellFormedText(t) ==
  /\ t.sentenceEnds \subseteq SentenceEndsIn(t.len)
  /\ t.paragraphBreaks \subseteq ParagraphBreaksIn(t.len)

SetMax(S) == CHOOSE x \in S : \A y \in S : y <= x

\* whether the character at index p of text t is white space
IsSpace(t, p) ==
  \/ (p - 1) \in t.sentenceEnds
  \/ p \in t.paragraphBreaks
  \/ (p - 1) \in t.paragraphBreaks

\* text.substring(from, to).lastIndexOf of a two-character pattern whose
\* occurrences in the text start at the indices in at; -1 if there is none
lastIndexOf(at, from, to) ==
  LET inside == {p \in at : p >= from /\ p + 2 <= to}
  IN IF inside = {} THEN -1 ELSE SetMax(inside) - from

\* the first index in from..to that holds no white space (to if none does)
RECURSIVE SkipSpaces(_, _, _)
SkipSpaces(t, from, to) ==
  IF from < to /\ IsSpace(t, from) THEN SkipSpaces(t, from + 1, to) ELSE from

\* the end of text.substring(from, to) once its trailing white space is cut
RECURSIVE CutSpaces(_, _, _)
CutSpaces(t, from, to) ==
  IF from < to /\ IsSpace(t, to - 1) THEN CutSpaces(t, from, to - 1) ELSE to

\* the span of text.substring(from, to).trim()
trim(t, from, to) ==
  LET f == SkipSpaces(t, from, to)
  IN <<f, CutSpaces(t, f, to)>>

\* a window twice as wide as chunkSize
WindowEndDouble(c, t, s) == Min(s + 2 * c.chunkSize, t.len)

\* const end = Math.min(start + this.chunkSize, text.length)
WindowEnd(c, t, s) == Min(s + c.chunkSize, t.len)

\* const breakPoint = Math.max(lastSentence, lastParagraph)
breakPoint(c, t, s) ==
  Max(lastIndexOf(t.sentenceEnds, s, WindowEnd(c, t, s)),
      lastIndexOf(t.paragraphBreaks, s, WindowEnd(c, t, s)))

\* the length of chunkText once the sentence-boundary rule has been applied:
\* if (end < text.length) and (breakPoint > start + this.chunkSize * 0.7)
\* then chunkText = chunkText.substring(0, breakPoint + 1)
chunkTextLength(c, t, s) ==
  IF /\ WindowEnd(c, t, s) < t.len
     /\ 10 * breakPoint(c, t, s) > 10 * s + 7 * c.chunkSize
  THEN breakPoint(c, t, s) + 1
  ELSE WindowEnd(c, t, s) - s

\* if (chunkText.trim().length >= this.minChunkSize) push
KeepsChunk(c, span) == span[2] - span[1] >= c.minChunkSize

advancementNoFloor(c, length) == length - c.chunkOverlap

\* const advancement = Math.max(chunkText.length - this.chunkOverlap, 100)
advancement(c, length) == Max(length - c.chunkOverlap, MinAdvancement)

ChunkIdle ==
  /\ cfg = DefaultConfig
  /\ text = [len |-> 0, sentenceEnds |-> {}, paragraphBreaks |-> {}]
  /\ start = 0
  /\ chunkIndex = 1
  /\ chunks = <<>>
  /\ chunkPc = "idle"

ChunkInit ==
  /\ cfg = DefaultConfig
  /\ \E l \in TextLengths : text \in Texts(l)
  /\ WellFormedText(text)
  /\ start = 0
  /\ chunkIndex = 1
  /\ chunks = <<>>
  /\ chunkPc = "called"

\* the settings processExtractedDocuments is called with: options.chunkSize,
\* options.chunkOverlap and options.minChunkSize, each positive, the overlap
\* below, at and above the chunk size
ChunkSizes == {200, 1500}

ChunkOverlaps == {200, 1600}

MinChunkSizes == {1, 300}

Configs ==
  [chunkSize : ChunkSizes, chunkOverlap : ChunkOverlaps, minChunkSize : MinChunkSizes]

ConfigTextLengths == {l \in TextLengths : l % (16 * LenStep) = 0}

\* the texts chunked under these settings: at most one break in all
ConfigTexts(l) ==
  {t \in Texts(l) : Cardinality(t.sentenceEnds) + Cardinality(t.paragraphBreaks) <= 1}

ConfigInit ==
  /\ cfg \in Configs
  /\ \E l \in ConfigTextLengths : text \in ConfigTexts(l)
  /\ WellFormedText(text)
  /\ start = 0
  /\ chunkIndex = 1
  /\ chunks = <<>>
  /\ chunkPc = "called"

\* createChunksFromText up to its loop: a text no longer than chunkSize is
\* returned as one chunk, as it is.
EnterChunker ==
  /\ chunkPc = "called"
  /\ IF text.len <= cfg.chunkSize
     THEN /\ chunks' = <<[from |-> 0, to |-> text.len, chunkIndex |-> 1]>>
          /\ chunkPc' = "done"
     ELSE /\ chunks' = <<>>
          /\ chunkPc' = "loop"
  /\ UNCHANGED <<cfg, text, start, chunkIndex>>
  /\ UNCHANGED <<scanVars, crawlVars, poolVars, logVars, docVars, extractVars, searchVars, dateVars, matchVars, serviceVars, detectVars, statsVars>>

\* One iteration of `while (start < text.length && chunkIndex <= maxChunksPerDoc)`,
\* with the test that ends the loop after it.
ChunkStep ==
  /\ chunkPc = "loop"
  /\ LET length == chunkTextLength(cfg, text, start)
         span == trim(text, start, start + length)
         kept == KeepsChunk(cfg, span)
         adv == advancement(cfg, length)
     IN /\ chunks' = IF kept
                     THEN Append(chunks, [from |-> span[1], to |-> span[2],
                                          chunkIndex |-> chunkIndex])
                     ELSE chunks
        /\ chunkIndex' = IF kept THEN chunkIndex + 1 ELSE chunkIndex
        /\ start' = start + adv
        /\ chunkPc' = IF \/ adv <= 0
                         \/ start' >= text.len
                         \/ chunkIndex' > maxChunksPerDoc
                      THEN "done" ELSE "loop"
  /\ UNCHANGED <<cfg, text>>
  /\ UNCHANGED <<scanVars, crawlVars, poolVars, logVars, docVars, extractVars, searchVars, dateVars, matchVars, serviceVars, detectVars, statsVars>>

ChunkNext ==
  \/ EnterChunker
  \/ ChunkStep

(***************************************************************************)
(* Chunk Indexer: DocumentProcessor.createChunks and extractPages.         *)
(*                                                                         *)
(* The cleaned text of a document is its page markers "--- PAGE n ---",    *)
(* each followed by the content up to the next marker, or, for a file      *)
(* written without markers, doc.plain characters of text.                  *)
(***************************************************************************)
ProcImpls == {"processor_js", "part_004"}

\* pageNumber: null
NullPage == -1

\* the length of "--- PAGE n ---" for a one-digit n
MarkerLength == 14

\* page contents shorter than minChunkSize, of one chunk, and of two
PageLengths == {4 * LenStep, 8 * LenStep, 40 * LenStep}

\* a page long enough for createChunksFromText to reach maxChunksPerDoc
HugePageLength ==
  maxChunksPerDoc * (DefaultConfig.chunkSize - DefaultConfig.chunkOverlap)
    + DefaultConfig.chunkSize

PageRecords == [pageNumber : 1..MaxPages, len : PageLengths]

MarkedDocs ==
  {[plain |-> 0, pages |-> ps] :
     ps \in UNION {[1..n -> PageRecords] : n \in 1..MaxPages}}

PlainDocs == {[plain |-> l, pages |-> <<>>] : l \in PageLengths}

HugeDocs ==
  {[plain |-> 0,
    pages |-> [i \in 1..n |-> [pageNumber |-> i, len |-> HugePageLength]]] :
     n \in 1..MaxPages}

Docs == MarkedDocs \cup PlainDocs \cup HugeDocs

RECURSIVE SumPageLengths(_)
SumPageLengths(ps) ==
  IF ps = <<>> THEN 0 ELSE Head(ps).len + SumPageLengths(Tail(ps))

\* cleanedText.length: the markers, each with the blank after it, their
\* contents, and a blank before every marker but the first
WholeLength(d) ==
  IF d.pages = <<>> THEN d.plain
  ELSE SumPageLengths(d.pages) + Len(d.pages) * (MarkerLength + 1)
         + (Len(d.pages) - 1)

\* extractPages: no page without a marker; else the marker contents longer
\* than minChunkSize, in the order of the markers, each with the number of
\* its marker
extractPages(c, d) ==
  LET indexed == [i \in 1..Len(d.pages) |->
                    [pageNumber |-> d.pages[i].pageNumber,
                     len |-> d.pages[i].len, segment |-> i]]
      LongEnough(pg) == pg.len > c.minChunkSize
  IN SelectSeq(indexed, LongEnough)

\* processor.js: if (pages.length === 0); part_004, part_005: if (pages.length <= 1)
PagelessBranch(i, pages) ==
  IF i = "processor_js" THEN Len(pages) = 0 ELSE Len(pages) <= 1

\* the calls of createChunksFromText that createChunks makes
UnitsOf(i, c, d) ==
  IF PagelessBranch(i, extractPages(c, d))
  THEN <<[pageNumber |-> NullPage, len |-> WholeLength(d), segment |-> 0]>>
  ELSE extractPages(c, d)

UnitText(u) == [len |-> u.len, sentenceEnds |-> {}, paragraphBreaks |-> {}]

DocIdle ==
  /\ procImpl = "processor_js"
  /\ doc = [plain |-> 0, pages |-> <<>>]
  /\ units = <<>>
  /\ unitIdx = 0
  /\ docChunks = <<>>
  /\ docPc = "idle"

\* processDocuments hands a text to createChunks unless it is empty or, in
\* processor.js, shorter than minChunkSize
ReachesCreateChunks(i, c, d) ==
  IF i = "processor_js" THEN WholeLength(d) >= c.minChunkSize
  ELSE WholeLength(d) > 0

DocInit ==
  /\ procImpl \in ProcImpls
  /\ doc \in Docs
  /\ ReachesCreateChunks(procImpl, DefaultConfig, doc)
  /\ units = <<>>
  /\ unitIdx = 0
  /\ docChunks = <<>>
  /\ docPc = "called"
  /\ cfg = DefaultConfig
  /\ text = [len |-> 0, sentenceEnds |-> {}, paragraphBreaks |-> {}]
  /\ start = 0
  /\ chunkIndex = 1
  /\ chunks = <<>>
  /\ chunkPc = "idle"

\* createChunks up to its first call of createChunksFromText
CreateChunks ==
  /\ docPc = "called"
  /\ units' = UnitsOf(procImpl, cfg, doc)
  /\ unitIdx' = 1
  /\ docPc' = "units"
  /\ text' = UnitText(units'[1])
  /\ start' = 0
  /\ chunkIndex' = 1
  /\ chunks' = <<>>
  /\ chunkPc' = "called"
  /\ UNCHANGED <<procImpl, doc, docChunks, cfg>>
  /\ UNCHANGED <<scanVars, crawlVars, poolVars, logVars, extractVars, searchVars, dateVars, matchVars, serviceVars, detectVars, statsVars>>

\* the chunks createChunksFromText returned, as createChunk tags them
Tagged(u, cs) ==
  [i \in 1..Len(cs) |->
     [pageNumber |-> u.pageNumber, segment |-> u.segment,
      chunkIndex |-> cs[i].chunkIndex, from |-> cs[i].from, to |-> cs[i].to]]

\* createChunksFromText has returned: its chunks are pushed, and the next
\* page is chunked or createChunks returns
UnitDone ==
  /\ docPc = "units"
  /\ chunkPc = "done"
  /\ docChunks' = docChunks \o Tagged(units[unitIdx], chunks)
  /\ IF unitIdx < Len(units)
     THEN /\ unitIdx' = unitIdx + 1
          /\ text' = UnitText(units[unitIdx + 1])
          /\ chunkPc' = "called"
          /\ docPc' = "units"
     ELSE /\ unitIdx' = unitIdx
          /\ text' = text
          /\ chunkPc' = "idle"
          /\ docPc' = "returned"
  /\ start' = 0
  /\ chunkIndex' = 1
  /\ chunks' = <<>>
  /\ UNCHANGED <<procImpl, doc, units, cfg>>
  /\ UNCHANGED <<scanVars, crawlVars, poolVars, logVars, extractVars, searchVars, dateVars, matchVars, serviceVars, detectVars, statsVars>>

DocNext ==
  \/ CreateChunks
  \/ EnterChunker
  \/ ChunkStep
  \/ UnitDone

(***************************************************************************)
(* Page Text Extractor: the page markers extractDocumentText writes.       *)
(***************************************************************************)
DocumentTypes == {"laserfiche_image", "pdfjs", "laserfiche_text", "weblink_iframe"}

\* if (totalPageCount <= 50), if (initialPageCount.totalPages <= 50)
SmallDocLimit == 50

\* Math.min(10, Math.ceil(totalPageCount / 100))
MaxSections == 10

PagesPerSectionUnit == 100

\* for (let i = 0; i < sectionPages && i < 50; i++)
MaxPagesPerScroll == 50

\* extractionResult.totalExpected > 5
LazyLoadingMinPages == 5

PageCounts == 1..MaxViewerPages \cup {SmallDocLimit + 1}

\* the subsets of S of at most k elements
RECURSIVE UpTo(_, _)
UpTo(S, k) ==
  IF k = 0 THEN {{}}
  ELSE UpTo(S, k - 1) \cup {T \cup {x} : T \in UpTo(S, k - 1), x \in S}

\* the sets of pages with text tried for a document of n pages
TextPages(n) ==
  IF n <= SmallDocLimit THEN SUBSET (1..n)
  ELSE {(1..n) \ B : B \in UpTo(1..n, MaxBlankPages)}

\* the elements of a set of numbers in increasing order
RECURSIVE Sorted(_)
Sorted(S) ==
  IF S = {} THEN <<>>
  ELSE LET m == CHOOSE x \in S : \A y \in S : x <= y
       IN <<m>> \o Sorted(S \ {m})

\* const sectionsToProcess = Math.min(10, Math.ceil(totalPageCount / 100))
sectionsToProcess(n) == Min(MaxSections, Ceil(n, PagesPerSectionUnit))

\* const pagesPerSection = Math.ceil(totalPageCount / sectionsToProcess)
pagesPerSection(n) == Ceil(n, sectionsToProcess(n))

\* const startPage = (section * pagesPerSection) + 1
startPage(n, sec) == sec * pagesPerSection(n) + 1

\* const endPage = Math.min((section + 1) * pagesPerSection, totalPageCount)
endPage(n, sec) == Min((sec + 1) * pagesPerSection(n), n)

\* needsLazyLoading: pageCount < (totalPageDivs * 0.8), and totalExpected > 5
needsLazyLoading(count, expected) ==
  /\ 10 * count < 8 * expected
  /\ expected > LazyLoadingMinPages

ExtractIdle ==
  /\ documentType = "laserfiche_image"
  /\ totalPageCount = 0
  /\ withText = {}
  /\ pageNum = 1
  /\ section = 0
  /\ offset = 0
  /\ allText = <<>>
  /\ lazyPasses = 0
  /\ extractPc = "idle"

\* extractDocumentText once the viewer type is detected and the page count read
ExtractInit ==
  /\ documentType \in DocumentTypes
  /\ totalPageCount \in PageCounts
  /\ withText \in TextPages(totalPageCount)
  /\ (documentType = "weblink_iframe" /\ totalPageCount <= SmallDocLimit)
       => withText = 1..totalPageCount
  /\ pageNum = 1
  /\ section = 0
  /\ offset = 0
  /\ allText = <<>>
  /\ lazyPasses = 0
  /\ extractPc = "pages"

\* laserfiche_image, small documents: one pass of the page-by-page loop; an
\* error on the page is caught and the page skipped
LaserficheSmallStep(ok) ==
  /\ extractPc = "pages"
  /\ documentType = "laserfiche_image"
  /\ totalPageCount <= SmallDocLimit
  /\ allText' = IF ok /\ pageNum \in withText
                THEN Append(allText, pageNum) ELSE allText
  /\ pageNum' = pageNum + 1
  /\ extractPc' = IF pageNum' <= totalPageCount THEN "pages" ELSE "done"
  /\ UNCHANGED <<documentType, totalPageCount, withText, section, offset, lazyPasses>>
  /\ UNCHANGED <<scanVars, crawlVars, poolVars, logVars, chunkVars, docVars, searchVars, dateVars, matchVars, serviceVars, detectVars, statsVars>>

\* laserfiche_image, large documents: one pass of the inner loop of the bulk
\* scrolling, with the step of the outer loop when the section is over
LaserficheLargeStep ==
  /\ extractPc = "pages"
  /\ documentType = "laserfiche_image"
  /\ totalPageCount > SmallDocLimit
  /\ LET n == totalPageCount
         currentPageNum == startPage(n, section) + offset
         sectionPages == endPage(n, section) - startPage(n, section) + 1
         more == offset + 1 < sectionPages /\ offset + 1 < MaxPagesPerScroll
     IN /\ allText' = IF currentPageNum \in withText
                      THEN Append(allText, currentPageNum) ELSE allText
        /\ offset' = IF more THEN offset + 1 ELSE 0
        /\ section' = IF more THEN section ELSE section + 1
        /\ extractPc' = IF more \/ section + 1 < sectionsToProcess(n)
                        THEN "pages" ELSE "done"
  /\ UNCHANGED <<documentType, totalPageCount, withText, pageNum, lazyPasses>>
  /\ UNCHANGED <<scanVars, crawlVars, poolVars, logVars, chunkVars, docVars, searchVars, dateVars, matchVars, serviceVars, detectVars, statsVars>>

\* pdfjs and laserfiche_text: the text layers with text are numbered 1, 2, ...
\* in document order; after the lazy loading the layers are read again, and
\* `second` of them have text
MarkedContentExtract(second) ==
  /\ extractPc = "pages"
  /\ documentType \in {"pdfjs", "laserfiche_text"}
  /\ LET pageCount == IF needsLazyLoading(Cardinality(withText), totalPageCount)
                      THEN second ELSE Cardinality(withText)
     IN allText' = [k \in 1..pageCount |-> k]
  /\ lazyPasses' = IF needsLazyLoading(Cardinality(withText), totalPageCount)
                   THEN lazyPasses + 1 ELSE lazyPasses
  /\ extractPc' = "done"
  /\ UNCHANGED <<documentType, totalPageCount, withText, pageNum, section, offset>>
  /\ UNCHANGED <<scanVars, crawlVars, poolVars, logVars, chunkVars, docVars, searchVars, dateVars, matchVars, serviceVars, detectVars, statsVars>>

\* the markers of the pages in `loaded` that allText does not hold yet, in
\* the order of the pages in the viewer
NewMarkers(loaded) ==
  SelectSeq(Sorted(loaded), LAMBDA n : \A k \in 1..Len(allText) : allText[k] # n)

\* weblink_iframe, small documents: one pass of the page-by-page loop; the
\* viewer has the pages in `loaded` loaded at this visit
IframeStep(loaded, ok) ==
  /\ extractPc = "pages"
  /\ documentType = "weblink_iframe"
  /\ totalPageCount <= SmallDocLimit
  /\ allText' = IF ok THEN allText \o NewMarkers(loaded) ELSE allText
  /\ pageNum' = pageNum + 1
  /\ extractPc' = IF pageNum' <= totalPageCount THEN "pages" ELSE "done"
  /\ UNCHANGED <<documentType, totalPageCount, withText, section, offset, lazyPasses>>
  /\ UNCHANGED <<scanVars, crawlVars, poolVars, logVars, chunkVars, docVars, searchVars, dateVars, matchVars, serviceVars, detectVars, statsVars>>

\* weblink_iframe, large documents: the loaded pages are read at once and
\* sorted by page number
IframeBulk ==
  /\ extractPc = "pages"
  /\ documentType = "weblink_iframe"
  /\ totalPageCount > SmallDocLimit
  /\ allText' = Sorted(withText)
  /\ extractPc' = "done"
  /\ UNCHANGED <<documentType, totalPageCount, withText, pageNum, section, offset, lazyPasses>>
  /\ UNCHANGED <<scanVars, crawlVars, poolVars, logVars, chunkVars, docVars, searchVars, dateVars, matchVars, serviceVars, detectVars, statsVars>>

\* the sets of pages the viewer may have loaded at one visit of the
\* page-by-page loop
LoadedSets ==
  IF documentType = "weblink_iframe" /\ totalPageCount <= SmallDocLimit
  THEN SUBSET withText ELSE {}

ExtractNext ==
  \/ \E ok \in BOOLEAN : LaserficheSmallStep(ok)
  \/ LaserficheLargeStep
  \/ \E second \in 0..totalPageCount : MarkedContentExtract(second)
  \/ \E loaded \in LoadedSets, ok \in BOOLEAN : IframeStep(loaded, ok)
  \/ IframeBulk

(***************************************************************************)
(* Relevance Search Engine: enhancedKeywordSearch and enhancedJSONSearch.  *)
(*                                                                         *)
(* The content of a chunk is a sequence of lower-case words separated by   *)
(* one blank; no word of the vocabulary is part of another.  A score is    *)
(* kept as an integer: the score of enhancedKeywordSearch times            *)
(* KeywordScale, that of enhancedJSONSearch times JsonScale.               *)
(***************************************************************************)
Words == {"rate", "roe", "meeting", "notes"}

\* the words of a query: those of the contents, a stop word, a short word
QueryWords == Words \cup {"the", "id"}

WordLength ==
  [w \in QueryWords |->
     CASE w = "rate" -> 4
       [] w \in {"roe", "the"} -> 3
       [] w = "id" -> 2
       [] w = "meeting" -> 7
       [] w = "notes" -> 5]

\* const stopWords, as far as QueryWords has them
stopWords == {"the"}

\* extractKeywords: word.length > 2
MinWordLength == 2

\* the sequences of 1 to n elements of S
SeqsUpTo(S, n) == UNION {[1..k -> S] : k \in 1..n}

Contents == SeqsUpTo(Words, MaxWords)

Queries == SeqsUpTo(QueryWords, MaxWords)

\* extractKeywords: the words longer than 2 characters that are no stop
\* words, without duplicates
extractKeywords(query) ==
  {query[i] : i \in {j \in DOMAIN query :
                       WordLength[query[j]] > MinWordLength /\ query[j] \notin stopWords}}

\* (content.match(new RegExp(term, 'g')) || []).length for a one-word term
Matches(content, term) == Cardinality({i \in DOMAIN content : content[i] = term})

\* the same for the two-word phrase "a b"
PhraseMatches(content, a, b) ==
  Cardinality({i \in 1..(Len(content) - 1) : content[i] = a /\ content[i + 1] = b})

\* score += matches * (term.length > 3 ? 2 : 1)
TermWeight(term) == IF WordLength[term] > 3 THEN 2 ELSE 1

\* score += matches * 5 for a rate keyword
RateKeywordBonus == 5

RECURSIVE TermScore(_, _, _)
TermScore(content, terms, weight) ==
  IF terms = {} THEN 0
  ELSE LET t == CHOOSE x \in terms : TRUE
       IN Matches(content, t) * (IF weight = 0 THEN TermWeight(t) ELSE weight)
            + TermScore(content, terms \ {t}, weight)

\* const rateKeywords, as far as the vocabulary has them: 'ROE'
rateKeywordScore(content) == RateKeywordBonus * Matches(content, "roe")

DocumentNames == {"STAFF COMMENTS", "DIRECT TESTIMONY", "DIRECT EXHIBITS"}

\* source.toLowerCase().includes('direct')
IncludesDirect(name) == name \in {"DIRECT TESTIMONY", "DIRECT EXHIBITS"}

\* source.toLowerCase().includes('exhibit'), and includes('exhibits')
IncludesExhibit(name) == name = "DIRECT EXHIBITS"

\* parseInt(chunk.metadata.pageNumber) || 999
DefaultPageNum == 999

\* if (pageNum < 50)
EarlyPageLimit == 50

\* if (pageNum > 1000), and the first appendix indicator
LatePageLimit == 1000

\* sourceLower.includes('exhibits') && pageNum > 100
ExhibitPageLimit == 100

SamplePages ==
  {NullPage, EarlyPageLimit - 1, EarlyPageLimit, ExhibitPageLimit + 1,
   LatePageLimit + 1}

\* isAppendixContent, with the indicators the vocabulary can show: a page
\* number above 1000, "meeting notes", an exhibits document above page 100
isAppendixContent(chunk) ==
  LET pageOf == IF chunk.pageNumber = NullPage THEN 0 ELSE chunk.pageNumber
  IN \/ pageOf > LatePageLimit
     \/ PhraseMatches(chunk.content, "meeting", "notes") > 0
     \/ IncludesExhibit(chunk.documentName) /\ pageOf > ExhibitPageLimit

PageForScore(chunk) ==
  IF chunk.pageNumber = NullPage THEN DefaultPageNum ELSE chunk.pageNumber

\* the product of the denominators of 0.1, 1.5 and 0.3
KeywordScale == 200

\* enhancedKeywordSearch, from the appendix penalty on: score *= 0.1,
\* score *= 2, score *= 1.5, score *= 0.3, times KeywordScale
KeywordFinal(base, appendix, direct, page) ==
  base * (IF appendix THEN 1 ELSE 10) * (IF direct THEN 2 ELSE 1)
       * (IF page < EarlyPageLimit THEN 3 ELSE 2)
       * (IF page > LatePageLimit THEN 3 ELSE 10)

\* the score enhancedKeywordSearch gives a chunk, times KeywordScale
KeywordScore(chunk, terms) ==
  KeywordFinal(TermScore(chunk.content, terms, 0) + rateKeywordScore(chunk.content),
               isAppendixContent(chunk),
               IncludesDirect(chunk.documentName) /\ ~IncludesExhibit(chunk.documentName),
               PageForScore(chunk))

\* score += matches * 15 for the structured search terms
SearchTermWeight == 15

\* score += matches * 2 for the fallback text search
FallbackWeight == 2

\* the product of the denominators of 1.8, 0.1, 1.5, 1.3 and 0.2
JsonScale == 5000

\* /rate|revenue|cost|expense|return|percent|dollar|\$/.test(term)
IsFinancialTerm(term) == term = "rate"

RECURSIVE StructuredMatches(_, _)
StructuredMatches(structuredTerms, terms) ==
  IF terms = {} THEN 0
  ELSE LET t == CHOOSE x \in terms : TRUE
       IN Cardinality({st \in structuredTerms : st = t})
            + StructuredMatches(structuredTerms, terms \ {t})

\* enhancedJSONSearch: the score from the structured fields with the
\* document context boosts (times 1.8, 0.1, 1.5), plus the fallback text
\* score, then the page factors (times 1.3, 0.2); times JsonScale
JsonFinal(structScore, textScore, st, financialQuery, page) ==
  (structScore * (IF st.present /\ st.isDirectTestimony THEN 9 ELSE 5)
               * (IF st.present /\ st.isAppendix THEN 1 ELSE 10)
               * (IF st.present /\ st.isFinancialData /\ financialQuery THEN 3 ELSE 2)
     + textScore * 100)
    * (IF page < EarlyPageLimit THEN 13 ELSE 10)
    * (IF page > LatePageLimit THEN 1 ELSE 5)

\* the score enhancedJSONSearch gives a chunk, times JsonScale
JsonScore(chunk, terms) ==
  JsonFinal(IF chunk.structured.present
            THEN SearchTermWeight * StructuredMatches(chunk.structured.searchTerms, terms)
            ELSE 0,
            TermScore(chunk.content, terms, FallbackWeight),
            chunk.structured,
            \E t \in terms : IsFinancialTerm(t),
            PageForScore(chunk))

Score(path, chunk, terms) ==
  IF path = "keyword" THEN KeywordScore(chunk, terms) ELSE JsonScore(chunk, terms)

\* structured: chunk.structured || null
NoStructure ==
  [present |-> FALSE, searchTerms |-> {}, isDirectTestimony |-> FALSE,
   isAppendix |-> FALSE, isFinancialData |-> FALSE]

Structures ==
  {NoStructure} \cup
  [present : {TRUE}, searchTerms : {{}, {"rate"}}, isDirectTestimony : BOOLEAN,
   isAppendix : BOOLEAN, isFinancialData : BOOLEAN]

\* the chunks tried for the scores: without structured data under every
\* document name, and with structured data
ScoringChunks ==
  [content : Contents, documentName : DocumentNames, pageNumber : SamplePages,
   structured : {NoStructure}, caseNumber : {1}, documentUrl : {TRUE},
   witness : {FALSE}]
  \cup
  [content : Contents, documentName : {"STAFF COMMENTS"}, pageNumber : SamplePages,
   structured : Structures, caseNumber : {1}, documentUrl : {TRUE},
   witness : {FALSE}]

\* enhancedKeywordSearch(query, maxResults = 15)
maxResults == 15

\* an index of more than maxResults chunks that hold "rate"
LargeIndex ==
  [i \in 1..(maxResults + 3) |->
     [content |-> CASE i % 3 = 0 -> <<"rate">>
                    [] i % 3 = 1 -> <<"rate", "rate">>
                    [] OTHER -> <<"rate", "roe">>,
      documentName |-> "STAFF COMMENTS", pageNumber |-> EarlyPageLimit,
      structured |-> NoStructure, caseNumber |-> 1, documentUrl |-> TRUE,
      witness |-> FALSE]]

ScoringIndexes == {<<c>> : c \in ScoringChunks} \cup {LargeIndex}

\* scoredChunks.sort((a, b) => b.score - a.score): the indices in I by
\* decreasing score, those of equal score in their order in the index
RECURSIVE SortByScore(_, _)
SortByScore(I, sc) ==
  IF I = {} THEN <<>>
  ELSE LET best == CHOOSE i \in I :
                     \A j \in I : sc[i] > sc[j] \/ (sc[i] = sc[j] /\ i <= j)
       IN <<best>> \o SortByScore(I \ {best}, sc)

\* array.slice(0, n)
Slice(seq, n) == SubSeq(seq, 1, Min(n, Len(seq)))

\* the chunks of positive score in the order of the index, the first
\* maxResults of them
SearchResultUnsorted(sc) ==
  LET positive == {i \in DOMAIN sc : sc[i] > 0}
  IN Slice(SelectSeq([i \in DOMAIN sc |-> i], LAMBDA i : i \in positive), maxResults)

\* what a search returns: the chunks of positive score, sorted, the first
\* maxResults of them
SearchResult(sc) ==
  Slice(SortByScore({i \in DOMAIN sc : sc[i] > 0}, sc), maxResults)

SearchIdle ==
  /\ indexedChunks = <<>>
  /\ searchPath = "none"
  /\ searchTerms = {}
  /\ scored = <<>>
  /\ searchResults = <<>>
  /\ topChunks = <<>>
  /\ citations = <<>>
  /\ prevTopChunks = <<>>
  /\ prevCitations = <<>>
  /\ chatCount = 0

SearchInit ==
  /\ indexedChunks \in ScoringIndexes
  /\ searchPath = "none"
  /\ searchTerms = {}
  /\ scored = <<>>
  /\ searchResults = <<>>
  /\ topChunks = <<>>
  /\ citations = <<>>
  /\ prevTopChunks = <<>>
  /\ prevCitations = <<>>
  /\ chatCount = 0

\* enhancedKeywordSearch(query) or enhancedJSONSearch(query)
Search(path, query) ==
  /\ searchPath = "none"
  /\ indexedChunks # <<>>
  /\ LET terms == extractKeywords(query)
         sc == [i \in DOMAIN indexedChunks |-> Score(path, indexedChunks[i], terms)]
     IN /\ searchTerms' = terms
        /\ scored' = sc
        /\ searchResults' = SearchResult(sc)
  /\ searchPath' = path
  /\ UNCHANGED <<indexedChunks, topChunks, citations, prevTopChunks,
                 prevCitations, chatCount>>
  /\ UNCHANGED <<scanVars, crawlVars, poolVars, logVars, chunkVars, docVars, extractVars, dateVars, matchVars, serviceVars, detectVars, statsVars>>

SearchNext == \E path \in {"keyword", "json"}, query \in Queries : Search(path, query)

(***************************************************************************)
(* generateChatResponse and the citations of its answer.                   *)
(***************************************************************************)
\* const topChunks = searchResults.slice(0, 12)
TopChunksLimit == 12

\* cleanDocumentName(docName) on the document names of the model
cleanDocumentName(docName) ==
  IF IncludesDirect(docName) THEN "Direct Testimony"
  ELSE IF docName = "STAFF COMMENTS" THEN "Staff Document"
  ELSE docName

\* the citation object addClickableUrlsToCitations builds from one chunk;
\* witness tells whether extractWitnessName(chunk) finds a name
CitationOf(chunk) ==
  [caseNumber |-> chunk.caseNumber,
   witness |-> chunk.witness,
   documentName |-> cleanDocumentName(chunk.documentName),
   pageNumber |-> chunk.pageNumber,
   documentUrl |-> chunk.documentUrl]

\* citationMap after relevantChunks.forEach over the first k chunks of top:
\* the citation of a case is set by the first chunk of the case that has a
\* documentUrl, and replaced by a later one that has a witness when the
\* stored one has none. Cases without citation are not in the DOMAIN.
RECURSIVE citationMap(_, _)
citationMap(top, k) ==
  IF k = 0 THEN <<>>
  ELSE LET before == citationMap(top, k - 1)
           chunk == indexedChunks[top[k]]
           caseNumber == chunk.caseNumber
       IN IF ~chunk.documentUrl THEN before
          ELSE IF caseNumber \notin DOMAIN before
          THEN [c \in DOMAIN before \cup {caseNumber} |->
                  IF c = caseNumber THEN CitationOf(chunk) ELSE before[c]]
          ELSE IF chunk.witness /\ ~before[caseNumber].witness
          THEN [before EXCEPT ![caseNumber] = CitationOf(chunk)]
          ELSE before

\* usedCitations: the citations of the case numbers the answer mentions,
\* each once, in the order of their first mention
usedCitations(top, mentioned) ==
  LET map == citationMap(top, Len(top))
      found == SelectSeq(mentioned, LAMBDA c : c \in DOMAIN map)
  IN [k \in DOMAIN found |-> map[found[k]]]

\* the case numbers an answer mentions, each at its first mention
Mentions ==
  {m \in SeqsUpTo(1..MaxCases, MaxCases) :
     \A j, k \in DOMAIN m : j # k => m[j] # m[k]}

\* a structured overlay that holds nothing the queries match
EmptyStructure == [NoStructure EXCEPT !.present = TRUE]

ChatPages == {1, 2}

\* the chunks of the chat sessions: two chunks that different queries rank
\* in different orders, with every combination of the cited fields
ChatChunks(content) ==
  [content : {content}, documentName : {"STAFF COMMENTS"}, pageNumber : ChatPages,
   structured : {NoStructure, EmptyStructure}, caseNumber : 1..MaxCases,
   documentUrl : BOOLEAN, witness : BOOLEAN]

ChatIndexes ==
  {<<a, b>> : a \in ChatChunks(<<"notes", "rate">>),
              b \in ChatChunks(<<"rate", "meeting">>)}

ChatQueries == {<<"notes", "rate">>, <<"meeting", "rate">>, <<"the">>}

ChatInit ==
  /\ indexedChunks \in ChatIndexes
  /\ searchPath = "none"
  /\ searchTerms = {}
  /\ scored = <<>>
  /\ searchResults = <<>>
  /\ topChunks = <<>>
  /\ citations = <<>>
  /\ prevTopChunks = <<>>
  /\ prevCitations = <<>>
  /\ chatCount = 0

\* generateChatResponse(userMessage): query is the message, mentioned the
\* case numbers in the answer of the model, ok whether the call succeeded
Chat(query, mentioned, ok) ==
  /\ chatCount < MaxChats
  /\ indexedChunks # <<>>
  /\ LET path == IF \E i \in DOMAIN indexedChunks : indexedChunks[i].structured.present
                 THEN "json" ELSE "keyword"
         terms == extractKeywords(query)
         sc == [i \in DOMAIN indexedChunks |-> Score(path, indexedChunks[i], terms)]
         results == SearchResult(sc)
         top == Slice(results, TopChunksLimit)
     IN /\ searchPath' = path
        /\ searchTerms' = terms
        /\ scored' = sc
        /\ searchResults' = results
        /\ topChunks' = IF results = <<>> THEN <<>> ELSE top
        /\ citations' = IF results = <<>> \/ ~ok THEN <<>>
                        ELSE usedCitations(top, mentioned)
  /\ prevTopChunks' = topChunks
  /\ prevCitations' = citations
  /\ chatCount' = chatCount + 1
  /\ UNCHANGED indexedChunks
  /\ UNCHANGED <<scanVars, crawlVars, poolVars, logVars, chunkVars, docVars, extractVars, dateVars, matchVars, serviceVars, detectVars, statsVars>>

ChatNext ==
  \E query \in ChatQueries, mentioned \in Mentions, ok \in BOOLEAN :
    Chat(query, mentioned, ok)

(***************************************************************************)
(* matchesQuery: a text is the sequence of its words, which single spaces  *)
(* separate.                                                               *)
(***************************************************************************)
RawWords == {"Test", "Utility", "general", "rate", "case", "cases", "id"}

\* String.prototype.toLowerCase on one word
toLowerCase(w) ==
  CASE w = "Test" -> "test"
    [] w = "Utility" -> "utility"
    [] OTHER -> w

LowerText(t) == [i \in DOMAIN t |-> toLowerCase(t[i])]

\* term.length
TermLength(w) ==
  CASE w \in {"test", "rate", "case"} -> 4
    [] w = "cases" -> 5
    [] w \in {"utility", "general"} -> 7
    [] OTHER -> 2

\* (term) => term.length > 2
MinTermLength == 2

\* whether word a is at the start of, at the end of, inside word b
IsPrefix(a, b) == a = b \/ (a = "case" /\ b = "cases")

IsSuffix(a, b) == a = b

IsSubstring(a, b) == IsPrefix(a, b) \/ IsSuffix(a, b)

\* field.includes(t) for a term t without a space
includesTerm(field, t) == \E i \in DOMAIN field : IsSubstring(t, field[i])

\* field.includes(query) for the whole query
includesQuery(field, q) ==
  IF q = <<>> THEN TRUE
  ELSE IF Len(q) = 1 THEN includesTerm(field, q[1])
  ELSE \E i \in 1..(Len(field) - Len(q) + 1) :
         /\ IsSuffix(q[1], field[i])
         /\ \A k \in 2..(Len(q) - 1) : q[k] = field[i + k - 1]
         /\ IsPrefix(q[Len(q)], field[i + Len(q) - 1])

\* query.split(' ').filter((term) => term.length > 2)
LongTerms(q) == {q[i] : i \in {j \in DOMAIN q : TermLength(q[j]) > MinTermLength}}

\* .replace(/\brate cases\b/g, 'rate')
RECURSIVE ReplaceRateCases(_)
ReplaceRateCases(q) ==
  IF Len(q) < 2 THEN q
  ELSE IF q[1] = "rate" /\ q[2] = "cases"
       THEN <<"rate">> \o ReplaceRateCases(SubSeq(q, 3, Len(q)))
       ELSE <<q[1]>> \o ReplaceRateCases(Tail(q))

\* .replace(/\bcases\b/g, 'case')
ReplaceCases(q) == [i \in DOMAIN q |-> IF q[i] = "cases" THEN "case" ELSE q[i]]

\* const coreTerms of part_003
coreTerms(q) == LongTerms(ReplaceCases(ReplaceRateCases(q)))

matchesQuery(i, data, query) ==
  LET q == LowerText(query)
      company == LowerText(data.company)
      description == LowerText(data.description)
  IN IF i = "crawler_js"
     THEN LET matchesCompany ==
                (\A t \in LongTerms(q) : includesTerm(company, t))
                  \/ includesQuery(company, q)
              matchesDescription ==
                (\A t \in LongTerms(q) : includesTerm(description, t))
                  \/ includesQuery(description, q)
          IN matchesCompany \/ matchesDescription
     ELSE LET matchesCompany == \E t \in coreTerms(q) : includesTerm(company, t)
              matchesDescription == \E t \in coreTerms(q) : includesTerm(description, t)
          IN matchesCompany \/ matchesDescription

Companies == SeqsUpTo({"Test", "Utility"}, 2)

Descriptions ==
  {<<"general", "rate", "case">>, <<"rate", "cases">>, <<"general">>, <<"case">>}

QueryVocabulary == {"rate", "case", "cases", "Utility", "id", "general"}

UserQueries == SeqsUpTo(QueryVocabulary, MaxWords)

MatchIdle ==
  /\ matchImpl = "crawler_js"
  /\ caseData = [company |-> <<>>, description |-> <<>>]
  /\ userQuery = <<>>
  /\ matched = FALSE
  /\ matchPc = "idle"

MatchInit ==
  /\ matchImpl \in Impls
  /\ caseData \in [company : Companies, description : Descriptions]
  /\ userQuery \in UserQueries
  /\ matched = FALSE
  /\ matchPc = "ready"

\* matchesQuery(caseData, userQuery)
MatchesQuery ==
  /\ matchPc = "ready"
  /\ matched' = matchesQuery(matchImpl, caseData, userQuery)
  /\ matchPc' = "done"
  /\ UNCHANGED <<matchImpl, caseData, userQuery>>
  /\ UNCHANGED <<scanVars, crawlVars, poolVars, logVars, chunkVars, docVars,
                 extractVars, searchVars, dateVars, serviceVars, detectVars, statsVars>>

MatchNext == MatchesQuery

(***************************************************************************)
(* The research sessions of one DynamicPUCResearchService, the only one of *)
(* the server: startResearch, conductResearch and generateChatResponse as  *)
(* far as the session and its chunks go.  A research run and its session   *)
(* have the same number.                                                   *)
(***************************************************************************)
Runs == 1..MaxRuns

ServiceIdle ==
  /\ currentSession = 0
  /\ serviceDocuments = 0
  /\ research = <<>>
  /\ chatSession = 0
  /\ chatSearched = 0
  /\ serviceChats = 0

\* constructor
ServiceInit ==
  /\ currentSession = 0
  /\ serviceDocuments = 0
  /\ research = [r \in Runs |-> "none"]
  /\ chatSession = 0
  /\ chatSearched = 0
  /\ serviceChats = 0

\* startResearch up to `await this.conductResearch(...)`, which waits for
\* the crawler
StartResearch(r) ==
  /\ research # <<>>
  /\ research[r] = "none"
  /\ currentSession' = r
  /\ research' = [research EXCEPT ![r] = "crawling"]
  /\ UNCHANGED <<serviceDocuments, chatSession, chatSearched, serviceChats>>
  /\ UNCHANGED <<scanVars, crawlVars, poolVars, logVars, chunkVars, docVars,
                 extractVars, searchVars, dateVars, matchVars, detectVars, statsVars>>

\* conductResearch after the crawler: this.sessionDocuments =
\* this.prepareDocumentsForSearch(processedData.chunks); or crawlCases or
\* processExtractedDocuments throws
FinishResearch(r, ok) ==
  /\ research # <<>>
  /\ research[r] = "crawling"
  /\ research' = [research EXCEPT ![r] = IF ok THEN "ready" ELSE "failed"]
  /\ serviceDocuments' = IF ok THEN r ELSE serviceDocuments
  /\ UNCHANGED <<currentSession, chatSession, chatSearched, serviceChats>>
  /\ UNCHANGED <<scanVars, crawlVars, poolVars, logVars, chunkVars, docVars,
                 extractVars, searchVars, dateVars, matchVars, detectVars, statsVars>>

\* generateChatResponse(userMessage, sessionId) with the session id that
\* startResearch returned for run r: the search goes over
\* this.sessionDocuments, and throws when it is null
ChatOnSession(r) ==
  /\ research # <<>>
  /\ research[r] = "ready"
  /\ serviceChats < MaxChats
  /\ chatSession' = r
  /\ chatSearched' = serviceDocuments
  /\ serviceChats' = serviceChats + 1
  /\ UNCHANGED <<currentSession, serviceDocuments, research>>
  /\ UNCHANGED <<scanVars, crawlVars, poolVars, logVars, chunkVars, docVars,
                 extractVars, searchVars, dateVars, matchVars, detectVars, statsVars>>

ServiceNext ==
  \E r \in Runs :
    \/ StartResearch(r)
    \/ \E ok \in BOOLEAN : FinishResearch(r, ok)
    \/ ChatOnSession(r)

(***************************************************************************)
(* extractDocumentText: the plain-text switch and the detection of the     *)
(* viewer type.                                                            *)
(***************************************************************************)
Structures5 ==
  [hasTextLayers : BOOLEAN, hasPdfLayers : BOOLEAN, hasPdfViewer : BOOLEAN,
   hasMarkedContent : BOOLEAN, hasWebLinkIframe : BOOLEAN]

NoViewer ==
  [hasTextLayers |-> FALSE, hasPdfLayers |-> FALSE, hasPdfViewer |-> FALSE,
   hasMarkedContent |-> FALSE, hasWebLinkIframe |-> FALSE]

\* the detection with the text layers of the textual variant looked for
\* before the marked content
detectLayersFirst(f) ==
  IF f.hasTextLayers THEN "laserfiche_image"
  ELSE IF f.hasPdfLayers THEN "laserfiche_text"
  ELSE IF f.hasPdfViewer /\ f.hasMarkedContent THEN "pdfjs"
  ELSE IF f.hasWebLinkIframe THEN "weblink_iframe"
  ELSE "unknown"

\* const documentType = await page.evaluate(...)
detectDocumentType(f) ==
  IF f.hasTextLayers THEN "laserfiche_image"
  ELSE IF f.hasPdfViewer /\ f.hasMarkedContent THEN "pdfjs"
  ELSE IF f.hasPdfLayers THEN "laserfiche_text"
  ELSE IF f.hasWebLinkIframe THEN "weblink_iframe"
  ELSE "unknown"

DetectIdle ==
  /\ needsTextMode = FALSE
  /\ textModeClicked = FALSE
  /\ structure = NoViewer
  /\ detected = "none"
  /\ detections = 0
  /\ detectPc = "idle"

\* after page.goto(documentUrl) and the wait
DetectInit ==
  /\ needsTextMode \in BOOLEAN
  /\ textModeClicked = FALSE
  /\ structure \in Structures5
  /\ detected = "none"
  /\ detections = 0
  /\ detectPc = "loaded"

\* if (needsTextMode) await page.click('#TEXTMODE'): the page shows another
\* structure afterwards; or the click throws and the catch returns null
ClickTextMode(after, ok) ==
  /\ detectPc = "loaded"
  /\ needsTextMode
  /\ textModeClicked' = ok
  /\ structure' = IF ok THEN after ELSE structure
  /\ detectPc' = IF ok THEN "switched" ELSE "returned"
  /\ UNCHANGED <<needsTextMode, detected, detections>>
  /\ UNCHANGED <<scanVars, crawlVars, poolVars, logVars, chunkVars, docVars,
                 extractVars, searchVars, dateVars, matchVars, serviceVars, statsVars>>

\* the detection, and `return null` for the unknown type
DetectType ==
  /\ \/ detectPc = "switched"
     \/ detectPc = "loaded" /\ ~needsTextMode
  /\ detected' = detectDocumentType(structure)
  /\ detections' = detections + 1
  /\ detectPc' = IF detected' = "unknown" THEN "returned" ELSE "extracting"
  /\ UNCHANGED <<needsTextMode, textModeClicked, structure>>
  /\ UNCHANGED <<scanVars, crawlVars, poolVars, logVars, chunkVars, docVars,
                 extractVars, searchVars, dateVars, matchVars, serviceVars, statsVars>>

\* the extraction of the detected type ends, with text or without
ExtractionReturns ==
  /\ detectPc = "extracting"
  /\ detectPc' = "returned"
  /\ UNCHANGED <<needsTextMode, textModeClicked, structure, detected, detections>>
  /\ UNCHANGED <<scanVars, crawlVars, poolVars, logVars, chunkVars, docVars,
                 extractVars, searchVars, dateVars, matchVars, serviceVars, statsVars>>

DetectNext ==
  \/ \E after \in Structures5, ok \in BOOLEAN : ClickTextMode(after, ok)
  \/ DetectType
  \/ ExtractionReturns

(***************************************************************************)
(* DocumentProcessor.processDocuments.  What the file of a document        *)
(* gives:                                                                  *)
(*   "unreadable"  readDocumentFile returns null or the empty string;      *)
(*   "short"       a text shorter than minChunkSize;                       *)
(*   "text"        a longer text;                                          *)
(*   "throws"      a text on which createChunks throws.                    *)
(***************************************************************************)
DocumentKinds == {"unreadable", "short", "text", "throws"}

\* the numbers of chunks createChunks returns for a text of the kind
ChunkCounts(kind) == IF kind = "short" THEN {0, 1} ELSE {1, 2}

NoStats ==
  [processedDocuments |-> 0, totalChunks |-> 0, skippedDocuments |-> 0,
   processingErrors |-> 0]

\* if (!documentText || documentText.length < this.minChunkSize) in
\* processor.js, if (!documentText) in part_004
SkipsDocument(i, kind) ==
  IF i = "processor_js" THEN kind \in {"unreadable", "short"}
  ELSE kind = "unreadable"

\* processingStats after the skip of a document
StatsAfterSkip(i, st) ==
  IF i = "processor_js"
  THEN [st EXCEPT !.skippedDocuments = @ + 1]
  ELSE [st EXCEPT !.skippedDocuments = @ + 1, !.processingErrors = @ + 1]

StatsIdle ==
  /\ statsImpl = "processor_js"
  /\ inputDocuments = <<>>
  /\ docIndex = 0
  /\ processingStats = NoStats
  /\ processedChunks = 0
  /\ statsPc = "idle"

StatsInit ==
  /\ statsImpl \in ProcImpls
  /\ inputDocuments \in {<<>>} \cup SeqsUpTo(DocumentKinds, MaxDocs)
  /\ docIndex = 0
  /\ processingStats = NoStats
  /\ processedChunks = 0
  /\ statsPc = "loop"

\* one pass of `for (const document of crawlerResults.allExtractedDocuments)`,
\* createChunks returning n chunks
ProcessDocument(n) ==
  /\ statsPc = "loop"
  /\ docIndex < Len(inputDocuments)
  /\ LET kind == inputDocuments[docIndex + 1]
     IN /\ n \in ChunkCounts(kind)
        /\ IF SkipsDocument(statsImpl, kind)
           THEN /\ processingStats' = StatsAfterSkip(statsImpl, processingStats)
                /\ UNCHANGED processedChunks
           ELSE IF kind = "throws"
           THEN /\ processingStats' =
                     [processingStats EXCEPT !.processingErrors = @ + 1]
                /\ UNCHANGED processedChunks
           ELSE /\ processingStats' =
                     [processingStats EXCEPT !.processedDocuments = @ + 1,
                                             !.totalChunks = @ + n]
                /\ processedChunks' = processedChunks + n
  /\ docIndex' = docIndex + 1
  /\ UNCHANGED <<statsImpl, inputDocuments, statsPc>>
  /\ UNCHANGED <<scanVars, crawlVars, poolVars, logVars, chunkVars, docVars,
                 extractVars, searchVars, dateVars, matchVars, serviceVars,
                 detectVars>>

\* the loop is over: return results
ProcessReturns ==
  /\ statsPc = "loop"
  /\ docIndex = Len(inputDocuments)
  /\ statsPc' = "returned"
  /\ UNCHANGED <<statsImpl, inputDocuments, docIndex, processingStats, processedChunks>>
  /\ UNCHANGED <<scanVars, crawlVars, poolVars, logVars, chunkVars, docVars,
                 extractVars, searchVars, dateVars, matchVars, serviceVars,
                 detectVars>>

StatsNext ==
  \/ \E n \in 0..2 : ProcessDocument(n)
  \/ ProcessReturns

(***************************************************************************)
(* validateCaseDate: the filed date against the date range.                *)
(* A date is a record of year, month and day; the range bounds are written *)
(* YYYY-MM-DD and the filed date M/D/YYYY.  Times are minutes since         *)
(* 00:00 UTC of 1 January of FirstYear.                                    *)
(***************************************************************************)
\* dateRange = { start: '2024-01-01', end: '2025-12-31' }
FirstYear == 2024

MinutesPerDay == 1440

IsLeapYear(y) == (y % 4 = 0 /\ y % 100 # 0) \/ y % 400 = 0

DaysInMonth(y, m) ==
  IF m = 2 THEN (IF IsLeapYear(y) THEN 29 ELSE 28)
  ELSE IF m \in {4, 6, 9, 11} THEN 30 ELSE 31

RECURSIVE DaysBeforeMonth(_, _)
DaysBeforeMonth(y, m) ==
  IF m = 1 THEN 0 ELSE DaysBeforeMonth(y, m - 1) + DaysInMonth(y, m - 1)

RECURSIVE DaysBeforeYear(_)
DaysBeforeYear(y) ==
  IF y = FirstYear THEN 0
  ELSE DaysBeforeYear(y - 1) + (IF IsLeapYear(y - 1) THEN 366 ELSE 365)

\* the days from 1 January of FirstYear to the date
DayNumber(d) == DaysBeforeYear(d.year) + DaysBeforeMonth(d.year, d.month) + d.day - 1

\* new Date('YYYY-MM-DD'): a date-only ISO string is 00:00 UTC of the day
ParseIsoDate(d) == DayNumber(d) * MinutesPerDay

\* new Date('M/D/YYYY'): any other date string is 00:00 local time of the
\* day, which is tz minutes before 00:00 UTC of the day
ParseLocalDate(d, tz) == DayNumber(d) * MinutesPerDay - tz

\* the first, a middle and the last day of the first MaxMonths months
Dates ==
  {[year |-> FirstYear, month |-> m, day |-> d] :
     m \in 1..MaxMonths, d \in {1, 15, 28, 29, 30, 31}}
  \cap {d \in [year : {FirstYear}, month : 1..MaxMonths, day : 1..31] :
          d.day \in {1, 15, DaysInMonth(d.year, d.month)}}

\* no Date Filed found on the page
NoDate == [year |-> 0, month |-> 0, day |-> 0]

\* America/Boise in winter, UTC, Europe/Berlin in winter
TimeZones == {-420, 0, 60}

\* const isValid = filed >= new Date(startDate) && filed <= new Date(endDate)
inDateRange(filed, range, tz) ==
  /\ ParseLocalDate(filed, tz) >= ParseIsoDate(range.start)
  /\ ParseLocalDate(filed, tz) <= ParseIsoDate(range.end)

DateIdle ==
  /\ timeZone = 0
  /\ dateRange = [start |-> NoDate, end |-> NoDate]
  /\ dateStr = NoDate
  /\ isValid = FALSE
  /\ datePc = "idle"

DateInit ==
  /\ timeZone \in TimeZones
  /\ dateRange \in [start : Dates, end : Dates]
  /\ dateStr = NoDate
  /\ isValid = FALSE
  /\ datePc = "ready"

\* validateCaseDate(page, startDate, endDate), found being the Date Filed
\* of the page
ValidateCaseDate(found) ==
  /\ datePc = "ready"
  /\ dateStr' = found
  /\ isValid' = IF found = NoDate THEN FALSE
                ELSE inDateRange(found, dateRange, timeZone)
  /\ datePc' = "checked"
  /\ UNCHANGED <<timeZone, dateRange>>
  /\ UNCHANGED <<scanVars, crawlVars, poolVars, logVars, chunkVars, docVars,
                 extractVars, searchVars, matchVars, serviceVars, detectVars, statsVars>>

DateNext == \E found \in Dates \cup {NoDate} : ValidateCaseDate(found)



(***************************************************************************)
(* Specifications.                                                         *)
(***************************************************************************)
\* the crawl run: discovery, the two passes, the worker pool of each case
Init == ScanIdle /\ CrawlInit /\ ChunkIdle /\ DocIdle /\ ExtractIdle /\ SearchIdle /\ DateIdle /\ MatchIdle /\ ServiceIdle /\ DetectIdle /\ StatsIdle

Next == CrawlNext

Spec == Init /\ [][Next]_vars

\* the worker pool of one case: crawlCases has discovered and counted one case
PoolInit ==
  /\ crawlPc = "links"
  /\ maxParallel \in 1..MaxWorkers
  /\ nCases = 1
  /\ caseIdx = 1
  /\ totalExtracted = 0
  /\ casesFound = <<>>
  /\ allExtractedDocuments = <<>>
  /\ summary = [totalCases |-> 0, totalDocuments |-> 0]
  /\ fatal = FALSE
  /\ trackerExtracted = 0
  /\ openSessions = 0
  /\ sessionDocuments = <<>>
  /\ PoolIdle
  /\ LogIdle

PoolNext ==
  \/ \E n \in 0..MaxDocs, ok \in BOOLEAN : EnumerateLinks(n, ok)
  \/ \E w \in Workers, oc \in StartOutcome : WorkerStart(w, oc)
  \/ \E w \in Workers, kind \in DocOutcome : ExtractDoc(w, kind)
  \/ \E w \in Workers, ok \in BOOLEAN : WorkerClose(w, ok)

InitPool == ScanIdle /\ PoolInit /\ ChunkIdle /\ DocIdle /\ ExtractIdle /\ SearchIdle /\ DateIdle /\ MatchIdle /\ ServiceIdle /\ DetectIdle /\ StatsIdle

SpecPool == InitPool /\ [][PoolNext]_vars

\* the chunking of one page text
InitChunk == ScanIdle /\ CrawlIdle /\ PoolIdle /\ LogIdle /\ ChunkInit /\ DocIdle /\ ExtractIdle /\ SearchIdle /\ DateIdle /\ MatchIdle /\ ServiceIdle /\ DetectIdle /\ StatsIdle

SpecChunk == InitChunk /\ [][ChunkNext]_vars

\* the chunking of one document, page by page
InitDoc == ScanIdle /\ CrawlIdle /\ PoolIdle /\ LogIdle /\ DocInit /\ ExtractIdle /\ SearchIdle /\ DateIdle /\ MatchIdle /\ ServiceIdle /\ DetectIdle /\ StatsIdle

SpecDoc == InitDoc /\ [][DocNext]_vars

\* the extraction of the pages of one document
InitExtract ==
  ScanIdle /\ CrawlIdle /\ PoolIdle /\ LogIdle /\ ChunkIdle /\ DocIdle /\ ExtractInit /\ SearchIdle /\ DateIdle /\ MatchIdle /\ ServiceIdle /\ DetectIdle /\ StatsIdle

SpecExtract == InitExtract /\ [][ExtractNext]_vars

\* one search over an index
InitSearch ==
  ScanIdle /\ CrawlIdle /\ PoolIdle /\ LogIdle /\ ChunkIdle /\ DocIdle /\ ExtractIdle
    /\ SearchInit /\ DateIdle /\ MatchIdle /\ ServiceIdle /\ DetectIdle /\ StatsIdle

SpecSearch == InitSearch /\ [][SearchNext]_vars

\* the chats of one session over an index
InitChat ==
  ScanIdle /\ CrawlIdle /\ PoolIdle /\ LogIdle /\ ChunkIdle /\ DocIdle /\ ExtractIdle
    /\ ChatInit /\ DateIdle /\ MatchIdle /\ ServiceIdle /\ DetectIdle /\ StatsIdle

SpecChat == InitChat /\ [][ChatNext]_vars

\* one case page checked against a date range
InitDate ==
  ScanIdle /\ CrawlIdle /\ PoolIdle /\ LogIdle /\ ChunkIdle /\ DocIdle /\ ExtractIdle
    /\ SearchIdle /\ DateInit /\ MatchIdle /\ ServiceIdle /\ DetectIdle /\ StatsIdle

SpecDate == InitDate /\ [][DateNext]_vars

\* one case of a listing against the query
InitMatch ==
  ScanIdle /\ CrawlIdle /\ PoolIdle /\ LogIdle /\ ChunkIdle /\ DocIdle /\ ExtractIdle
    /\ SearchIdle /\ DateIdle /\ MatchInit /\ ServiceIdle /\ DetectIdle /\ StatsIdle

SpecMatch == InitMatch /\ [][MatchNext]_vars

\* the research runs and chats of one service
InitService ==
  ScanIdle /\ CrawlIdle /\ PoolIdle /\ LogIdle /\ ChunkIdle /\ DocIdle /\ ExtractIdle
    /\ SearchIdle /\ DateIdle /\ MatchIdle /\ ServiceInit /\ DetectIdle /\ StatsIdle

SpecService == InitService /\ [][ServiceNext]_vars

\* the detection of the viewer type of one document
InitDetect ==
  ScanIdle /\ CrawlIdle /\ PoolIdle /\ LogIdle /\ ChunkIdle /\ DocIdle /\ ExtractIdle
    /\ SearchIdle /\ DateIdle /\ MatchIdle /\ ServiceIdle /\ DetectInit /\ StatsIdle

SpecDetect == InitDetect /\ [][DetectNext]_vars

\* processDocuments over the documents of one crawl
InitStats ==
  ScanIdle /\ CrawlIdle /\ PoolIdle /\ LogIdle /\ ChunkIdle /\ DocIdle /\ ExtractIdle
    /\ SearchIdle /\ DateIdle /\ MatchIdle /\ ServiceIdle /\ DetectIdle /\ StatsInit

SpecStats == InitStats /\ [][StatsNext]_vars

\* createChunksFromText under the settings of processExtractedDocuments; the
\* loop is synchronous code, so a step that can be taken is taken
InitConfig ==
  ScanIdle /\ CrawlIdle /\ PoolIdle /\ LogIdle /\ DocIdle /\ ExtractIdle
    /\ SearchIdle /\ DateIdle /\ MatchIdle /\ ServiceIdle /\ DetectIdle /\ StatsIdle
    /\ ConfigInit

SpecConfig == InitConfig /\ [][ChunkNext]_vars /\ WF_vars(ChunkNext)

\* the scan of one listing view
InitScan == ScanInit /\ CrawlIdle /\ PoolIdle /\ LogIdle /\ ChunkIdle /\ DocIdle /\ ExtractIdle /\ SearchIdle /\ DateIdle /\ MatchIdle /\ ServiceIdle /\ DetectIdle /\ StatsIdle

SpecScan == InitScan /\ [][ScanNext]_vars

(***************************************************************************)
(* C1.                                                                     *)
(***************************************************************************)
\* the outcomes that count towards the early stop of the running loop
Counting ==
  IF impl = "part_003" /\ caseStatus = "closed" THEN {"new"}
  ELSE {"old", "new", "nodate"}

\* seen[k-5 .. k-1] are five consecutive cases, all with an outcome in S
FiveBefore(k, S) == k > 5 /\ \A j \in (k - 5)..(k - 1) : seen[j] \in S

Remaining(w) == {documentChunks[w][i] : i \in (pos[w] + 1)..Len(documentChunks[w])}

InFlight == {w \in Workers : wpc[w] \in {"running", "closing"}}

\* C3: the chunks hold ceil(len / W) documents each, the last one between 1
\* and that, there is one worker per chunk, and never more than W workers
\* are in flight.
C3_ChunksOfCeilAndAtMostW ==
  poolPc # "none" =>
    /\ \A k \in DOMAIN documentChunks :
         IF k < Len(documentChunks)
         THEN Len(documentChunks[k]) = Ceil(nDocs, maxParallel)
         ELSE /\ Len(documentChunks[k]) >= 1
              /\ Len(documentChunks[k]) <= Ceil(nDocs, maxParallel)
    /\ Workers = DOMAIN documentChunks
    /\ Len(documentChunks) <= maxParallel
    /\ Cardinality(InFlight) <= maxParallel

\* three documents, W = 2: chunks of 2 and 1, both workers in flight
C3_Witness ==
  /\ nDocs = 3
  /\ maxParallel = 2
  /\ Len(documentChunks[1]) = 2
  /\ Len(documentChunks[2]) = 1
  /\ Cardinality(InFlight) = 2

(***************************************************************************)
(* C4.                                                                     *)
(***************************************************************************)
\* worker w has just been through a document whose extraction failed
FailedDocStep(w) ==
  /\ wpc[w] = "running"
  /\ pos'[w] = pos[w] + 1
  /\ outcome'[documentChunks[w][pos[w] + 1]] # "ok"

\* the failure stays with the document: the worker keeps what it extracted
\* and goes on with its chunk, nothing changes for the other workers, the
\* pool and the run
Contained(w) ==
  /\ wres'[w] = wres[w]
  /\ wpc'[w] = IF pos'[w] < Len(documentChunks[w]) THEN "running" ELSE "closing"
  /\ \A v \in Workers \ {w} :
       wpc'[v] = wpc[v] /\ pos'[v] = pos[v] /\ wres'[v] = wres[v]
  /\ poolPc' = poolPc
  /\ crawlPc' = crawlPc
  /\ fatal' = fatal

\* a case whose only document shows no known viewer signature, once its
\* worker has closed its session: the pool resolved with no document and the
\* run returned without a fatal error
UnknownOnlyDocument ==
  (nDocs = 1 /\ wpc = <<"resolved">> /\ outcome = <<"unknown">>) =>
    /\ poolPc = "resolved"
    /\ extractedTexts = <<>>
    /\ crawlPc = "returned"
    /\ ~fatal
    /\ summary.totalDocuments = 0

\* C4: a document whose extraction fails (unknown viewer, no text, or an
\* error caught by extractDocumentText) stops neither its worker, nor the
\* other workers, nor the run.
C4_DocumentFailureContained ==
  /\ [][\A w \in Workers : FailedDocStep(w) => Contained(w)]_vars
  /\ []UnknownOnlyDocument

\* a worker extracted the second document of its chunk after the first failed
C4_Witness ==
  /\ poolPc = "resolved"
  /\ \E w \in Workers :
       /\ Len(documentChunks[w]) >= 2
       /\ outcome[documentChunks[w][1]] = "throws"
       /\ outcome[documentChunks[w][2]] = "ok"
       /\ wres[w] = <<documentChunks[w][2]>>

(***************************************************************************)
(* C5 - C9.                                                                *)
(***************************************************************************)
\* the entries of DEBUG_FAILURES.failed for document d of the current case
FailureEntries(d) ==
  {i \in DOMAIN failed : failed[i].caseNumber = caseIdx /\ failed[i].document = d}

\* C5: when a worker's loop is over, every document of its chunk it did not
\* get to is recorded in the failure log.
C5_RemainingRecordedAsFailed ==
  \A w \in Workers :
    wpc[w] \in {"closing", "resolved"} =>
      \A d \in Remaining(w) : FailureEntries(d) # {}

\* C6: no worker error makes processDocumentsInParallel reject.
C6_PoolNeverRejects == poolPc # "rejected"

\* C7: while the workers of a case run, the tracker's extracted count is the
\* count of the earlier cases plus what all workers of the case extracted.
C7_TrackerCountsAllWorkers ==
  crawlPc = "pool" => trackerExtracted = totalExtracted + SumLen(wres)

\* C8: every document whose extraction did not succeed has exactly one entry
\* in the failure log.
C8_EveryFailureLoggedOnce ==
  \A d \in DOMAIN outcome :
    outcome[d] \notin {"pending", "ok"} => Cardinality(FailureEntries(d)) = 1

\* C9: once the run has returned and every worker has settled, each document
\* whose text was extracted is in allExtractedDocuments.
C9_ReturnsEveryExtractedDocument ==
  (crawlPc \in {"returned", "ready"} /\
   \A w \in Workers : wpc[w] \in {"resolved", "rejected"}) =>
    savedFiles \subseteq Range(allExtractedDocuments)
(***************************************************************************)
(* C10.                                                                    *)
(***************************************************************************)
\* C10: when createChunksFromText returns, the spans of its chunks cover the
\* page text without a gap: the first starts at the start of the text, each
\* next one starts no later than the one before it ends, and the last ends
\* at the end of the text.
C10_ChunksCoverText ==
  chunkPc = "done" =>
    /\ chunks # <<>>
    /\ chunks[1].from = 0
    /\ \A i \in 1..(Len(chunks) - 1) : chunks[i + 1].from <= chunks[i].to
    /\ chunks[Len(chunks)].to = text.len
(***************************************************************************)
(* C11.                                                                    *)
(***************************************************************************)
\* the length of the content of the i-th chunk pushed
ContentLength(i) == chunks[i].to - chunks[i].from

\* C11: the content of every chunk of a unit is at most chunkSize +
\* chunkOverlap characters long, and every chunk but the last of the unit is
\* at least minChunkSize characters long.
C11_ChunkLengthBounds ==
  \A i \in 1..Len(chunks) :
    /\ ContentLength(i) <= cfg.chunkSize + cfg.chunkOverlap
    /\ i < Len(chunks) => ContentLength(i) >= cfg.minChunkSize

\* a unit cut into three chunks, the first of them at a sentence end
C11_Witness ==
  /\ chunkPc = "done"
  /\ Len(chunks) = 3
  /\ ContentLength(1) < cfg.chunkSize
  /\ ContentLength(2) = cfg.chunkSize
(***************************************************************************)
(* C12, C13.                                                               *)
(***************************************************************************)
\* C12: when the text of a document holds a page marker, every chunk
\* createChunks returns carries the number of one marker and lies inside the
\* content of that marker; a chunk has pageNumber null only when the text
\* holds no marker.
C12_ChunksStayInsideOnePage ==
  (docPc = "returned" /\ doc.pages # <<>>) =>
    \A i \in 1..Len(docChunks) :
      /\ docChunks[i].pageNumber # NullPage
      /\ docChunks[i].segment \in 1..Len(doc.pages)
      /\ docChunks[i].pageNumber = doc.pages[docChunks[i].segment].pageNumber
      /\ docChunks[i].to <= doc.pages[docChunks[i].segment].len

\* C13: createChunks returns at most maxChunksPerDoc chunks for a document.
C13_AtMostMaxChunksPerDoc ==
  docPc = "returned" => Len(docChunks) <= maxChunksPerDoc
(***************************************************************************)
(* C14.                                                                    *)
(***************************************************************************)
\* the sentence ends and paragraph breaks in the last 30% of the window
\* that starts at s
LateBoundaries(s) ==
  {p \in text.sentenceEnds \cup text.paragraphBreaks :
     /\ 10 * (p - s) > 7 * cfg.chunkSize
     /\ p + 2 <= WindowEnd(cfg, text, s)}

\* the window that starts at s is not the last of its unit and holds a
\* boundary in its last 30%
CutsAtBoundary(s) ==
  /\ WindowEnd(cfg, text, s) < text.len
  /\ LateBoundaries(s) # {}

\* C14: a window that is not the last of its unit and holds a sentence end
\* or a paragraph break in its last 30% gives a chunk that ends at the last
\* of them, wherever the window starts.
C14_BreaksAtLastBoundary ==
  [][(chunkPc = "loop" /\ CutsAtBoundary(start)) =>
       /\ Len(chunks') = Len(chunks) + 1
       /\ chunks'[Len(chunks')].to =
            trim(text, start, SetMax(LateBoundaries(start)) + 1)[2]]_vars
(***************************************************************************)
(* C15.                                                                    *)
(***************************************************************************)
\* C15: in every extraction strategy, the page markers written for a
\* document are in strictly increasing order of page number.
C15_MarkersInPageOrder ==
  \A j \in 1..Len(allText) : \A k \in 1..Len(allText) :
    j < k => allText[j] < allText[k]
(***************************************************************************)
(* C17 - C19.                                                              *)
(***************************************************************************)
\* the chunk with one more occurrence of term, put after its first p words
WithOccurrence(chunk, term, p) ==
  [chunk EXCEPT !.content =
     SubSeq(chunk.content, 1, p) \o <<term>>
       \o SubSeq(chunk.content, p + 1, Len(chunk.content))]

\* C17: after enhancedKeywordSearch, for every chunk and every search term
\* matched in it, the chunk with one more occurrence of the term, wherever
\* it is added, has a final score no lower than the chunk has.
C17_ScoreMonotonicInOccurrences ==
  searchPath = "keyword" =>
    \A i \in DOMAIN indexedChunks :
      \A t \in searchTerms :
        Matches(indexedChunks[i].content, t) > 0 =>
          \A p \in 0..Len(indexedChunks[i].content) :
            KeywordScore(WithOccurrence(indexedChunks[i], t, p), searchTerms)
              >= scored[i]

\* whether the search path takes the chunk for appendix content
Flagged(path, chunk) ==
  IF path = "keyword" THEN isAppendixContent(chunk)
  ELSE chunk.structured.present /\ chunk.structured.isAppendix

\* the final score of the chunk that differs from it in the appendix flag only
UnflaggedScore(path, chunk, terms) ==
  IF path = "keyword"
  THEN KeywordFinal(TermScore(chunk.content, terms, 0) + rateKeywordScore(chunk.content),
                    FALSE,
                    IncludesDirect(chunk.documentName) /\ ~IncludesExhibit(chunk.documentName),
                    PageForScore(chunk))
  ELSE JsonScore([chunk EXCEPT !.structured.isAppendix = FALSE], terms)

\* C18: in both search paths a chunk flagged as appendix content has a
\* final score strictly below that of the chunk that differs from it in the
\* flag only, whenever the latter is positive.
C18_AppendixScoresStrictlyLower ==
  searchPath # "none" =>
    \A i \in DOMAIN indexedChunks :
      (/\ Flagged(searchPath, indexedChunks[i])
       /\ UnflaggedScore(searchPath, indexedChunks[i], searchTerms) > 0)
        => scored[i] < UnflaggedScore(searchPath, indexedChunks[i], searchTerms)

\* the chunks a search returned
Returned == {searchResults[k] : k \in DOMAIN searchResults}

\* C19: a search returns at most maxResults chunks, each once and each with
\* a positive score, in non-increasing order of score, and no chunk it
\* leaves out has a higher score than one it returns.
C19_TopResultsInScoreOrder ==
  searchPath # "none" =>
    /\ Len(searchResults) <= maxResults
    /\ Cardinality(Returned) = Len(searchResults)
    /\ Returned \subseteq DOMAIN indexedChunks
    /\ \A k \in DOMAIN searchResults : scored[searchResults[k]] > 0
    /\ \A k \in 1..(Len(searchResults) - 1) :
         scored[searchResults[k]] >= scored[searchResults[k + 1]]
    /\ \A i \in DOMAIN indexedChunks \ Returned : \A j \in Returned :
         scored[i] <= scored[j]
    /\ Len(searchResults) < maxResults =>
         \A i \in DOMAIN indexedChunks \ Returned : scored[i] = 0

\* a search that left matching chunks out: maxResults chunks returned, of
\* different scores, and a chunk of positive score not among them
C19_Witness ==
  /\ Len(searchResults) = maxResults
  /\ scored[searchResults[1]] > scored[searchResults[maxResults]]
  /\ \E i \in DOMAIN indexedChunks \ Returned : scored[i] > 0
(***************************************************************************)
(* C16.                                                                    *)
(***************************************************************************)
\* the chunks handed to addClickableUrlsToCitations by a chat
ChunkSet(top) == {top[k] : k \in DOMAIN top}

\* C16: two chats of a session whose searches select the same chunks,
\* whatever their order and scores, give the same citation object for the
\* same case.
C16_CitationIndependentOfRanking ==
  (chatCount = MaxChats /\ ChunkSet(topChunks) = ChunkSet(prevTopChunks)) =>
    \A j \in DOMAIN citations : \A k \in DOMAIN prevCitations :
      citations[j].caseNumber = prevCitations[k].caseNumber
        => citations[j] = prevCitations[k]
(***************************************************************************)
(* C20.                                                                    *)
(***************************************************************************)
\* C20: whatever the time zone, validateCaseDate accepts a case filed on
\* the start date of the range and a case filed on its end date.
C20_RangeInclusiveAtBothEnds ==
  (/\ datePc = "checked"
   /\ DayNumber(dateRange.start) <= DayNumber(dateRange.end)
   /\ dateStr \in {dateRange.start, dateRange.end})
    => isValid
(***************************************************************************)
(* C21.                                                                    *)
(***************************************************************************)
\* the terms of the query longer than 2 characters, in lower case
QueryTerms == LongTerms(LowerText(userQuery))

\* C21: matchesQuery returns true whenever every term of the query longer
\* than 2 characters is a substring of the company or of the description,
\* whatever the case of the letters.
C21_MatchesWhenEveryTermOccurs ==
  (/\ matchPc = "done"
   /\ \A t \in QueryTerms :
        \/ includesTerm(LowerText(caseData.company), t)
        \/ includesTerm(LowerText(caseData.description), t))
    => matched
(***************************************************************************)
(* C22.                                                                    *)
(***************************************************************************)
\* the visit of one more case ends in an error
ErrorStep ==
  /\ Len(seen') = Len(seen) + 1
  /\ seen'[Len(seen')] = "err"

\* C22: in every view, the visit of a case that ends in an error leaves the
\* counter of consecutive misses as it was, adds nothing to the output and
\* leaves the scan of the view going.
C22_ErrorLeavesCounterAlone ==
  [][ErrorStep =>
       /\ consecutive' = consecutive
       /\ validCases' = validCases
       /\ scanPc' = "scanning"]_vars

\* an error between two misses: both counted, the scan goes on
C22_Witness ==
  /\ seen = <<"new", "err", "new", "in">>
  /\ validCases = <<4>>
  /\ consecutive = 0
  /\ scanPc = "scanning"
(***************************************************************************)
(* C23.                                                                    *)
(***************************************************************************)
\* C23: a chat request with the session id of a research run searches the
\* chunks of that run and of no other, whatever other runs have started or
\* finished on the service.
C23_ChatSearchesOwnSession ==
  chatSession # 0 => chatSearched = chatSession
(***************************************************************************)
(* C24.                                                                    *)
(***************************************************************************)
\* the page numbers of the markers of the output
MarkedPages == {allText[k] : k \in DOMAIN allText}

\* C24: when the large-document mode of the image+text-layer strategy is
\* over, every page with text has its marker in the output, once.
C24_LargeModeVisitsEveryPage ==
  (/\ extractPc = "done"
   /\ documentType = "laserfiche_image"
   /\ totalPageCount > SmallDocLimit)
    => /\ MarkedPages = withText
       /\ Len(allText) = Cardinality(withText)
(***************************************************************************)
(* C25.                                                                    *)
(***************************************************************************)
\* fewer pages with extracted text than 80% of the expected pages
BelowEightyPercent == 10 * Cardinality(withText) < 8 * totalPageCount

\* C25: the marked-content strategies make one lazy-load pass with one
\* re-extraction when the pages with text are fewer than 80% of the
\* expected pages, whatever the expected page count, and none otherwise.
C25_OneLazyPassBelowEightyPercent ==
  (extractPc = "done" /\ documentType \in {"pdfjs", "laserfiche_text"})
    => lazyPasses = IF BelowEightyPercent THEN 1 ELSE 0
(***************************************************************************)
(* C26.                                                                    *)
(***************************************************************************)
\* C26: once the type is detected it is the first of the four signatures
\* that the page shows after the plain-text switch, in the order text-page
\* layers, viewer root with marked content, text layer, iframe; it is
\* unknown exactly when the page shows none; the switch was invoked if the
\* page has it; and the type of a document is detected once only.
C26_DetectionByPriority ==
  detected # "none" =>
    /\ detected = "laserfiche_image" <=> structure.hasTextLayers
    /\ detected = "pdfjs" <=>
         /\ ~structure.hasTextLayers
         /\ structure.hasPdfViewer /\ structure.hasMarkedContent
    /\ detected = "laserfiche_text" <=>
         /\ ~structure.hasTextLayers
         /\ ~(structure.hasPdfViewer /\ structure.hasMarkedContent)
         /\ structure.hasPdfLayers
    /\ detected = "weblink_iframe" <=>
         /\ ~structure.hasTextLayers
         /\ ~(structure.hasPdfViewer /\ structure.hasMarkedContent)
         /\ ~structure.hasPdfLayers
         /\ structure.hasWebLinkIframe
    /\ detected = "unknown" <=>
         /\ ~structure.hasTextLayers
         /\ ~(structure.hasPdfViewer /\ structure.hasMarkedContent)
         /\ ~structure.hasPdfLayers
         /\ ~structure.hasWebLinkIframe
    /\ needsTextMode => textModeClicked
    /\ detections = 1
    /\ detected = "unknown" => detectPc = "returned"

\* the marked-content renderer detected after the switch on a page that
\* shows a text layer and an iframe as well
C26_Witness ==
  /\ detected = "pdfjs"
  /\ textModeClicked
  /\ structure.hasPdfLayers
  /\ structure.hasWebLinkIframe
  /\ detectPc = "returned"
(***************************************************************************)
(* C27.                                                                    *)
(***************************************************************************)
\* C27: when processDocuments returns, the for loop has gone through every
\* document, the processed, skipped and errored documents add up to the
\* number of documents, and totalChunks is the number of chunks returned.
C27_EveryDocumentCountedOnce ==
  statsPc = "returned" =>
    /\ docIndex = Len(inputDocuments)
    /\ processingStats.processedDocuments + processingStats.skippedDocuments
         + processingStats.processingErrors = Len(inputDocuments)
    /\ processingStats.totalChunks = processedChunks
(***************************************************************************)
(* C28.                                                                    *)
(***************************************************************************)
\* C28: under every setting createChunksFromText returns, and each pass of
\* its loop moves start forward by the length of the chunk text minus the
\* overlap, and by 100 characters when that is less.
C28_StartAdvancesAndLoopEnds ==
  /\ [][chunkPc = "loop" =>
          /\ start' > start
          /\ start' - start >= MinAdvancement
          /\ start' - start =
               Max(chunkTextLength(cfg, text, start) - cfg.chunkOverlap, MinAdvancement)]_vars
  /\ <>(chunkPc = "done")

\* a text chunked with an overlap above the chunk size: the loop has passed
\* more than once and is over
C28_Witness ==
  /\ cfg.chunkOverlap > cfg.chunkSize
  /\ chunkPc = "done"
  /\ start >= text.len
  /\ start >= 8 * MinAdvancement
(***************************************************************************)
(* C29.                                                                    *)
(***************************************************************************)
\* C29: when crawlCases has returned, no browser launched by its counting
\* pass or its extraction pass is still open.
C29_SessionsClosedAtReturn == crawlPc = "returned" => openSessions = 0
(***************************************************************************)
(* C30.                                                                    *)
(***************************************************************************)
\* C30: in the result crawlCases returns, summary.totalDocuments is the
\* number of entries of allExtractedDocuments and summary.totalCases the
\* number of entries of casesFound.
C30_SummaryMatchesResult ==
  crawlPc = "returned" =>
    /\ summary.totalDocuments = Len(allExtractedDocuments)
    /\ summary.totalCases = Len(casesFound)
====
